---- MODULE Spec2Model ----
(***************************************************************************)
(* Orthogonal edge routing (src/lib/orthogonalRouter.js), the layered      *)
(* layout (src/lib/dagreLayout.js), the collapse filter getVisibleGraph    *)
(* (src/lib/OrthogonalEdge.jsx) and the port resolution of the routing     *)
(* orchestrator (src/lib/EdgeRoutingProvider.jsx) as state machines.       *)
(*                                                                         *)
(* Router coordinates are integers counting quarter pixels: a JavaScript   *)
(* number v is modelled as 4*v; the port resolution counts in 1/120 px.    *)
(* Every router input coordinate is a multiple of half a pixel (an even    *)
(* number of units), so the midpoints of fallbackPath and                  *)
(* the half-separation offsets of separateOverlappingEdges stay integral.  *)
(* EPS (0.01 px) is below one unit: |d| < EPS is d = 0, |d| > EPS is       *)
(* d # 0.                                                                  *)
(***************************************************************************)
EXTENDS Integers, Sequences, FiniteSets, TLC

VARIABLES
    (* computeOrthogonalPath *)
    rin,        \* the call's arguments: ports, directions, nodes, config
    rpc,        \* position in computeOrthogonalPath
    waypoints,  \* waypoints[]
    heap,       \* MinHeap.data
    dist,       \* dist[]  (INF when unset)
    prev,       \* prev[]  (0 models -1)
    prevDir,    \* prevDir[] ("null" when unset)
    visited,    \* visited[]
    rout,       \* the returned points
    (* simplifyPath *)
    spIn,       \* the argument of the first call
    spOut,      \* results of the successive calls
    (* separateOverlappingEdges *)
    edgePaths,  \* the batch handed to the separator
    separation, \* its separation argument
    sepRadius,  \* its bendRadius argument
    sepOut,     \* the points of the returned batch
    sepPaths,   \* the path of each returned edge, as SVG commands
    sepPc,
    (* longestPathFromSource *)
    g,          \* the graph handed to the ranker
    inDeg,
    queue,
    rank,       \* g.node(id).rank (Unranked when unset)
    rankPc,
    (* layoutGraphDagre *)
    ledges,     \* the edges argument
    inserted,   \* the edges handed to g.setEdge, in call order
    childX,     \* the x order dagre.layout gives the children
    layPc,
    (* getVisibleGraph *)
    vin,        \* the nodes and edges arguments
    hiddenIds,
    visibleNodes,
    visibleEdges,
    visPc,
    (* EdgeRoutingProvider: the ports of one edge *)
    pin,        \* the edge's handles and its source and target nodes
    srcInfo,
    tgtInfo,
    portPc,
    (* MinHeap on its own *)
    mhData,     \* MinHeap.data
    pushed,     \* number of push calls so far
    popped,     \* the entries pop returned, in order
    pushLog,    \* the entries handed to push, in order
    (* graphActions and the OrthogonalFlow handlers *)
    gNodes,     \* nodesRef.current: the ids of the nodes prop, in order
    gEdges,     \* edgesRef.current: the edges prop
    gCall,      \* the last handler run: its arguments, its result, the props it saw
    gStart      \* connectStartRef.current

routeVars == <<rin, rpc, waypoints, heap, dist, prev, prevDir, visited, rout>>
simpVars  == <<spIn, spOut>>
sepVars   == <<edgePaths, separation, sepRadius, sepOut, sepPaths, sepPc>>
rankVars  == <<g, inDeg, queue, rank, rankPc>>
layVars   == <<ledges, inserted, childX, layPc>>
visVars   == <<vin, hiddenIds, visibleNodes, visibleEdges, visPc>>
portVars  == <<pin, srcInfo, tgtInfo, portPc>>
mhVars    == <<mhData, pushed, popped, pushLog>>
graphVars == <<gNodes, gEdges, gCall, gStart>>
auxVars   == <<layVars, visVars, portVars, mhVars, graphVars>>
coreVars  == <<routeVars, simpVars, sepVars, rankVars>>
vars      == <<coreVars, auxVars>>

----------------------------------------------------------------------------
(* Generic helpers *)

Abs(a) == IF a < 0 THEN -a ELSE a
Min(a, b) == IF a < b THEN a ELSE b
Max(a, b) == IF a > b THEN a ELSE b
Pt(x, y) == [x |-> x, y |-> y]

RECURSIVE SortedSeq(_)
\* Array.from(set).sort((a, b) => a - b)
SortedSeq(S) ==
    IF S = {} THEN <<>>
    ELSE LET m == CHOOSE a \in S : \A b \in S : a <= b
         IN <<m>> \o SortedSeq(S \ {m})

\* 1 px, the tolerance of the same-column test, in model units
Px == 4

----------------------------------------------------------------------------
(* Path utilities: src/lib/orthogonalRouter.js 102-129 *)

RECURSIVE DedupLoop(_, _, _)
DedupLoop(points, i, result) ==
    IF i > Len(points) THEN result
    ELSE LET prv == result[Len(result)]
         IN DedupLoop(points, i + 1,
                IF prv.x # points[i].x \/ prv.y # points[i].y
                THEN Append(result, points[i]) ELSE result)

dedup(points) ==
    IF Len(points) <= 1 THEN points
    ELSE DedupLoop(points, 2, <<points[1]>>)

RECURSIVE SimplifyLoop(_, _, _)
SimplifyLoop(points, i, result) ==
    IF i > Len(points) - 1 THEN result
    ELSE LET prv == result[Len(result)]
             nxt == points[i + 1]
             cur == points[i]
             collinearX == prv.x = cur.x /\ cur.x = nxt.x
             collinearY == prv.y = cur.y /\ cur.y = nxt.y
         IN SimplifyLoop(points, i + 1,
                IF collinearX \/ collinearY THEN result ELSE Append(result, cur))

\* a variant that keeps collinear middle points: C7 must tell it apart
simplifyPathKeepingCollinear(points) == dedup(points)

simplifyPath(points) ==
    IF Len(points) <= 2 THEN points
    ELSE dedup(Append(SimplifyLoop(points, 2, <<points[1]>>), points[Len(points)]))

----------------------------------------------------------------------------
(* Geometry helpers: src/lib/orthogonalRouter.js 57-98 *)

\* nodes.map(n => ({left, right, top, bottom})); the id is not used by the router
inflateObstacles(nodes, padding) ==
    { [left   |-> n.x - padding,
       right  |-> n.x + n.width + padding,
       top    |-> n.y - padding,
       bottom |-> n.y + n.height + padding] : n \in nodes }

pointStrictlyInsideAnyObstacle(x, y, obstacles) ==
    \E o \in obstacles : x > o.left /\ x < o.right /\ y > o.top /\ y < o.bottom

\* a variant that only notices a segment ending inside a rect, not one that
\* spans it: C2 must tell it apart
segmentEndsInAnyObstacle(orientation, fixedCoord, start, end, obstacles) ==
    \E o \in obstacles :
        IF orientation = "h"
        THEN /\ fixedCoord > o.top /\ fixedCoord < o.bottom
             /\ \/ start > o.left /\ start < o.right
                \/ end > o.left /\ end < o.right
        ELSE /\ fixedCoord > o.left /\ fixedCoord < o.right
             /\ \/ start > o.top /\ start < o.bottom
                \/ end > o.top /\ end < o.bottom

segmentCrossesAnyObstacle(orientation, fixedCoord, start, end, obstacles) ==
    LET lo == Min(start, end)
        hi == Max(start, end)
    IN \E o \in obstacles :
          IF orientation = "h"
          THEN fixedCoord > o.top /\ fixedCoord < o.bottom /\ hi > o.left /\ lo < o.right
          ELSE fixedCoord > o.left /\ fixedCoord < o.right /\ hi > o.top /\ lo < o.bottom

----------------------------------------------------------------------------
(* Stub helpers and the S-shaped fallback: src/lib/orthogonalRouter.js 197-251 *)

Dirs == {"top", "bottom", "left", "right"}

STUB_DELTAS(dir) ==
    CASE dir = "bottom" -> [dx |-> 0,  dy |-> 1]
      [] dir = "top"    -> [dx |-> 0,  dy |-> -1]
      [] dir = "left"   -> [dx |-> -1, dy |-> 0]
      [] dir = "right"  -> [dx |-> 1,  dy |-> 0]

computeStubEnd(x, y, dir, length) ==
    LET d == STUB_DELTAS(dir)
    IN Pt(x + d.dx * length, y + d.dy * length)

IsVertical(dir) == dir = "top" \/ dir = "bottom"

\* cfg carries sourceDir, targetDir, sourceStubLength, targetStubLength
fallbackPath(sourceX, sourceY, targetX, targetY, cfg) ==
    LET srcDir  == cfg.sourceDir
        tgtDir  == cfg.targetDir
        stubSrc == computeStubEnd(sourceX, sourceY, srcDir, cfg.sourceStubLength)
        stubTgt == computeStubEnd(targetX, targetY, tgtDir, cfg.targetStubLength)
        srcVertical == IsVertical(srcDir)
        tgtVertical == IsVertical(tgtDir)
        midY == (stubSrc.y + stubTgt.y) \div 2
        midX == (stubSrc.x + stubTgt.x) \div 2
    IN IF srcVertical /\ tgtVertical
       THEN << Pt(sourceX, sourceY), stubSrc, Pt(stubSrc.x, midY),
               Pt(stubTgt.x, midY), stubTgt, Pt(targetX, targetY) >>
       ELSE IF ~srcVertical /\ ~tgtVertical
       THEN << Pt(sourceX, sourceY), stubSrc, Pt(midX, stubSrc.y),
               Pt(midX, stubTgt.y), stubTgt, Pt(targetX, targetY) >>
       ELSE << Pt(sourceX, sourceY), stubSrc, Pt(stubTgt.x, stubSrc.y),
               stubTgt, Pt(targetX, targetY) >>

----------------------------------------------------------------------------
(* MinHeap: src/lib/orthogonalRouter.js 5-53.  data is 1-based here: the   *)
(* parent of i is i \div 2 and its children are 2i and 2i+1.               *)

Swap(data, i, j) == [data EXCEPT ![i] = data[j], ![j] = data[i]]

RECURSIVE bubbleUp(_, _)
bubbleUp(data, i) ==
    IF i > 1 /\ data[i].cost < data[i \div 2].cost
    THEN bubbleUp(Swap(data, i, i \div 2), i \div 2)
    ELSE data

\* pop without the sink: the last element stays at the root
sinkDownNever(data, i) == data

RECURSIVE sinkDown(_, _)
sinkDown(data, i) ==
    LET n  == Len(data)
        l  == 2 * i
        r  == 2 * i + 1
        s1 == IF l <= n /\ data[l].cost < data[i].cost THEN l ELSE i
        smallest == IF r <= n /\ data[r].cost < data[s1].cost THEN r ELSE s1
    IN IF smallest # i THEN sinkDown(Swap(data, i, smallest), smallest) ELSE data

HeapPush(data, item) == bubbleUp(Append(data, item), Len(data) + 1)

\* pop() returns data[0]; this is the array it leaves behind
HeapPopRest(data) ==
    LET last == data[Len(data)]
        rest == SubSeq(data, 1, Len(data) - 1)
    IN IF Len(rest) > 0 THEN sinkDown([rest EXCEPT ![1] = last], 1) ELSE rest

HeapTop(data) == data[1]

----------------------------------------------------------------------------
(* computeOrthogonalPath: src/lib/orthogonalRouter.js 255-439.             *)
(* in = [sx, sy, tx, ty, nodes, cfg] are the arguments (cfg after the      *)
(* merge with DEFAULTS).                                                   *)

INF == -1

sourceStubEnd(in) ==
    computeStubEnd(in.sx, in.sy, in.cfg.sourceDir, in.cfg.sourceStubLength)

targetStubStart(in) ==
    computeStubEnd(in.tx, in.ty, in.cfg.targetDir, in.cfg.targetStubLength)

Obstacles(in) == inflateObstacles(in.nodes, in.cfg.padding)

\* lines 275-279: the stubs nearly share a column and overlap or cross
TakesShortcut(in) ==
    LET sameX == Abs(sourceStubEnd(in).x - targetStubStart(in).x) < Px
    IN /\ IsVertical(in.cfg.sourceDir)
       /\ IsVertical(in.cfg.targetDir)
       /\ sameX
       /\ sourceStubEnd(in).y >= targetStubStart(in).y

ShortcutPoints(in) ==
    simplifyPath(dedup(<< Pt(in.sx, in.sy), sourceStubEnd(in),
                          targetStubStart(in), Pt(in.tx, in.ty) >>))

\* lines 289-305: sorted guide coordinates
GuideXs(in) ==
    SortedSeq({sourceStubEnd(in).x, targetStubStart(in).x}
              \cup {o.left : o \in Obstacles(in)}
              \cup {o.right : o \in Obstacles(in)})

GuideYs(in) ==
    SortedSeq({sourceStubEnd(in).y, targetStubStart(in).y}
              \cup {o.top : o \in Obstacles(in)}
              \cup {o.bottom : o \in Obstacles(in)})

\* lines 308-326: for x of xs, for y of ys, addWaypoint(x, y)
Waypoints(in) ==
    LET xs == GuideXs(in)
        ys == GuideYs(in)
        ny == Len(ys)
        cross == [k \in 1 .. (Len(xs) * ny) |->
                     Pt(xs[((k - 1) \div ny) + 1], ys[((k - 1) % ny) + 1])]
        free(p) == ~pointStrictlyInsideAnyObstacle(p.x, p.y, Obstacles(in))
    IN SelectSeq(cross, free)

\* addWaypoint on a point of the grid: its index, or 0 (the code's -1) when
\* the point was rejected as strictly inside an obstacle.  Both stub ends
\* lie on guide coordinates, so the call never appends.
WaypointIndex(wps, p) ==
    IF \E i \in 1 .. Len(wps) : wps[i] = p
    THEN CHOOSE i \in 1 .. Len(wps) : wps[i] = p
    ELSE 0

startIdx(in) == WaypointIndex(Waypoints(in), sourceStubEnd(in))
endIdx(in)   == WaypointIndex(Waypoints(in), targetStubStart(in))

\* lines 339-380.  adj[i] lists, in this order, the previous and next
\* waypoint of i's column (the 'v' edges are added first) and the previous
\* and next waypoint of its row, each only when the segment between the two
\* crosses no obstacle.
ColNeighbour(wps, i, sign) ==
    LET cand == { j \in 1 .. Len(wps) :
                    wps[j].x = wps[i].x /\ sign * (wps[j].y - wps[i].y) > 0 }
    IN IF cand = {} THEN 0
       ELSE CHOOSE j \in cand :
              \A k \in cand : Abs(wps[j].y - wps[i].y) <= Abs(wps[k].y - wps[i].y)

RowNeighbour(wps, i, sign) ==
    LET cand == { j \in 1 .. Len(wps) :
                    wps[j].y = wps[i].y /\ sign * (wps[j].x - wps[i].x) > 0 }
    IN IF cand = {} THEN 0
       ELSE CHOOSE j \in cand :
              \A k \in cand : Abs(wps[j].x - wps[i].x) <= Abs(wps[k].x - wps[i].x)

VEdge(in, wps, i, j) ==
    IF j # 0 /\ ~segmentCrossesAnyObstacle("v", wps[i].x, wps[i].y, wps[j].y, Obstacles(in))
    THEN << [neighbor |-> j, dist |-> Abs(wps[j].y - wps[i].y), dir |-> "v"] >>
    ELSE << >>

HEdge(in, wps, i, j) ==
    IF j # 0 /\ ~segmentCrossesAnyObstacle("h", wps[i].y, wps[i].x, wps[j].x, Obstacles(in))
    THEN << [neighbor |-> j, dist |-> Abs(wps[j].x - wps[i].x), dir |-> "h"] >>
    ELSE << >>

adj(in, wps, i) ==
       VEdge(in, wps, i, ColNeighbour(wps, i, -1))
    \o VEdge(in, wps, i, ColNeighbour(wps, i, 1))
    \o HEdge(in, wps, i, RowNeighbour(wps, i, -1))
    \o HEdge(in, wps, i, RowNeighbour(wps, i, 1))

\* lines 401-404
bendCost(in, st, idx, edge) ==
    IF st.prevDir[idx] # "null" /\ st.prevDir[idx] # edge.dir
    THEN in.cfg.bendPenalty ELSE 0

\* lines 399-412: the relaxation loop over adj[idx];
\* st = [dist, prev, prevDir, heap, visited]
RECURSIVE Relax(_, _, _, _, _, _)
Relax(in, edges, k, cost, idx, st) ==
    IF k > Len(edges) THEN st
    ELSE LET edge    == edges[k]
             newCost == cost + edge.dist + bendCost(in, st, idx, edge)
         IN IF st.visited[edge.neighbor] THEN Relax(in, edges, k + 1, cost, idx, st)
            ELSE IF st.dist[edge.neighbor] = INF \/ newCost < st.dist[edge.neighbor]
            THEN Relax(in, edges, k + 1, cost, idx,
                    [st EXCEPT !.dist[edge.neighbor] = newCost,
                               !.prev[edge.neighbor] = idx,
                               !.prevDir[edge.neighbor] = edge.dir,
                               !.heap = HeapPush(st.heap, [cost |-> newCost, idx |-> edge.neighbor])])
            ELSE Relax(in, edges, k + 1, cost, idx, st)

\* lines 421-427: walk prev[] back from cur, then reverse
RECURSIVE pathIndices(_, _)
pathIndices(prv, cur) ==
    IF cur = 0 THEN << >> ELSE Append(pathIndices(prv, prv[cur]), cur)

\* lines 429-437
RoutedPoints(in, wps, prv) ==
    LET idxs == pathIndices(prv, WaypointIndex(wps, targetStubStart(in)))
        fullPoints == << Pt(in.sx, in.sy), sourceStubEnd(in) >>
                      \o [k \in 1 .. Len(idxs) |-> wps[idxs[k]]]
                      \o << targetStubStart(in), Pt(in.tx, in.ty) >>
    IN simplifyPath(dedup(fullPoints))

\* lines 333-334 and 417-418
FallbackPoints(in) == simplifyPath(fallbackPath(in.sx, in.sy, in.tx, in.ty, in.cfg))

----------------------------------------------------------------------------
(* waypointsToSvgPath: src/lib/orthogonalRouter.js 131-193.  The path is a  *)
(* sequence of commands; their numbers are doubled (eighths of a pixel) so  *)
(* that the clamped radius min(bendRadius, inLen/2, outLen/2) is integral.  *)

Sign(a) == IF a = 0 THEN 0 ELSE IF a < 0 THEN -1 ELSE 1

CmdM(p) == [op |-> "M", x |-> 2 * p.x, y |-> 2 * p.y]
CmdL(p) == [op |-> "L", x |-> 2 * p.x, y |-> 2 * p.y]

\* the commands emitted for interior vertex i (lines 145-189)
CornerCommands(points, i, bendRadius) ==
    LET prv == points[i - 1]
        cur == points[i]
        nxt == points[i + 1]
        dx1 == cur.x - prv.x
        dy1 == cur.y - prv.y
        dx2 == nxt.x - cur.x
        dy2 == nxt.y - cur.y
        inLen  == Abs(dx1) + Abs(dy1)
        outLen == Abs(dx2) + Abs(dy2)
        r2 == Min(2 * bendRadius, Min(inLen, outLen))   \* twice r
    IN IF (dx1 = 0 /\ dx2 = 0) \/ (dy1 = 0 /\ dy2 = 0) THEN << CmdL(cur) >>
       ELSE IF r2 < Px THEN << CmdL(cur) >>               \* r < 0.5
       ELSE << [op |-> "L", x |-> 2 * cur.x - Sign(dx1) * r2,
                            y |-> 2 * cur.y - Sign(dy1) * r2],
               [op |-> "Q", cx |-> 2 * cur.x, cy |-> 2 * cur.y,
                            x |-> 2 * cur.x + Sign(dx2) * r2,
                            y |-> 2 * cur.y + Sign(dy2) * r2] >>

RECURSIVE CornerLoop(_, _, _, _)
CornerLoop(points, i, bendRadius, d) ==
    IF i > Len(points) - 1 THEN d
    ELSE CornerLoop(points, i + 1, bendRadius, d \o CornerCommands(points, i, bendRadius))

\* a variant whose rounded path stops at the last corner: C6 must tell it apart
waypointsToSvgPathOpenEnded(points, bendRadius) ==
    IF Len(points) = 0 THEN << >>
    ELSE IF Len(points) <= 2 \/ bendRadius <= 0
    THEN << CmdM(points[1]) >> \o [i \in 1 .. Len(points) - 1 |-> CmdL(points[i + 1])]
    ELSE CornerLoop(points, 2, bendRadius, << CmdM(points[1]) >>)

waypointsToSvgPath(points, bendRadius) ==
    IF Len(points) = 0 THEN << >>
    ELSE IF Len(points) <= 2 \/ bendRadius <= 0
    THEN << CmdM(points[1]) >> \o [i \in 1 .. Len(points) - 1 |-> CmdL(points[i + 1])]
    ELSE Append(CornerLoop(points, 2, bendRadius, << CmdM(points[1]) >>),
                CmdL(points[Len(points)]))

----------------------------------------------------------------------------
(* separateOverlappingEdges: src/lib/orthogonalRouter.js 453-645.          *)
(* A batch is a sequence of point sequences; edge and point indices are    *)
(* 1-based here, so the code's segment index si is k - 1 and its stub      *)
(* junctions 1 and len-2 are the points 2 and len-1.                       *)

\* lines 471-498: the routable segment starting at point k of edge ei
SegmentAt(pts, ei, k) ==
    LET p1 == pts[k]
        p2 == pts[k + 1]
        dx == Abs(p1.x - p2.x)
        dy == Abs(p1.y - p2.y)
    IN IF dy = 0 /\ dx # 0
       THEN << [edgeIdx |-> ei, segIdx |-> k, orientation |-> "h",
                fixedCoord |-> p1.y, lo |-> Min(p1.x, p2.x), hi |-> Max(p1.x, p2.x)] >>
       ELSE IF dx = 0 /\ dy # 0
       THEN << [edgeIdx |-> ei, segIdx |-> k, orientation |-> "v",
                fixedCoord |-> p1.x, lo |-> Min(p1.y, p2.y), hi |-> Max(p1.y, p2.y)] >>
       ELSE << >>

RECURSIVE EdgeSegments(_, _, _)
EdgeSegments(pts, ei, k) ==
    IF Len(pts) < 4 \/ k > Len(pts) - 2 THEN << >>
    ELSE SegmentAt(pts, ei, k) \o EdgeSegments(pts, ei, k + 1)

RECURSIVE allSegments(_, _)
allSegments(paths, ei) ==
    IF ei > Len(paths) THEN << >>
    ELSE EdgeSegments(paths[ei], ei, 2) \o allSegments(paths, ei + 1)

\* line 520: segs.sort((a, b) => a.lo - b.lo), a stable sort
RECURSIVE InsertByLo(_, _)
InsertByLo(sorted, seg) ==
    IF sorted = << >> THEN << seg >>
    ELSE IF sorted[Len(sorted)].lo <= seg.lo THEN Append(sorted, seg)
    ELSE Append(InsertByLo(SubSeq(sorted, 1, Len(sorted) - 1), seg), sorted[Len(sorted)])

RECURSIVE SortByLo(_, _, _)
SortByLo(segs, i, acc) ==
    IF i > Len(segs) THEN acc ELSE SortByLo(segs, i + 1, InsertByLo(acc, segs[i]))

\* a sweep that keeps the whole group in one cluster, gaps or not
RECURSIVE SweepAcrossGaps(_, _, _, _, _)
SweepAcrossGaps(segs, i, clusters, cluster, clusterEnd) ==
    IF i > Len(segs) THEN Append(clusters, cluster)
    ELSE SweepAcrossGaps(segs, i + 1, clusters, Append(cluster, segs[i]),
                         Max(clusterEnd, segs[i].hi))

\* lines 522-536: sweep into clusters of overlapping or touching ranges
RECURSIVE Sweep(_, _, _, _, _)
Sweep(segs, i, clusters, cluster, clusterEnd) ==
    IF i > Len(segs) THEN Append(clusters, cluster)
    ELSE IF segs[i].lo <= clusterEnd
    THEN Sweep(segs, i + 1, clusters, Append(cluster, segs[i]), Max(clusterEnd, segs[i].hi))
    ELSE Sweep(segs, i + 1, Append(clusters, cluster), << segs[i] >>, segs[i].hi)

\* lines 540-547: edges in order of first appearance in the cluster
RECURSIVE edgeOrder(_, _, _)
edgeOrder(cl, i, acc) ==
    IF i > Len(cl) THEN acc
    ELSE edgeOrder(cl, i + 1,
            IF \E j \in 1 .. Len(acc) : acc[j] = cl[i].edgeIdx
            THEN acc ELSE Append(acc, cl[i].edgeIdx))

\* offsets counted up from 0 instead of spread about the centre
SpreadFromZero(i, N, sep) == i * sep

\* line 552: (i - (N - 1) / 2) * separation for the 0-based rank i
CenterSpread(i, N, sep) == ((2 * i - (N - 1)) * sep) \div 2

\* lines 548-559: the offsets one cluster assigns, as records [e, s, off]
ClusterOffsets(cl, sep) ==
    LET order == edgeOrder(cl, 1, << >>)
        N == Len(order)
    IN IF N < 2 THEN {}
       ELSE { [e |-> cl[j].edgeIdx, s |-> cl[j].segIdx, off |-> CenterSpread(i - 1, N, sep)] :
                <<i, j>> \in { <<a, b>> \in (1 .. N) \X (1 .. Len(cl)) : cl[b].edgeIdx = order[a] } }

\* lines 512-537 for one group (one orientation and fixed coordinate)
GroupOffsets(segs, sep) ==
    IF Len(segs) < 2 \/ Cardinality({ segs[i].edgeIdx : i \in 1 .. Len(segs) }) < 2 THEN {}
    ELSE LET sorted == SortByLo(segs, 1, << >>)
             clusters == Sweep(sorted, 2, << >>, << sorted[1] >>, sorted[1].hi)
         IN UNION { ClusterOffsets(clusters[c], sep) : c \in 1 .. Len(clusters) }

\* lines 501-561: the offsets map
Offsets(paths, sep) ==
    LET all == allSegments(paths, 1)
        keys == { << all[i].orientation, all[i].fixedCoord >> : i \in 1 .. Len(all) }
        group(key) == SelectSeq(all, LAMBDA sg : << sg.orientation, sg.fixedCoord >> = key)
    IN UNION { GroupOffsets(group(key), sep) : key \in keys }

HasOffset(offsets, ei, k) == \E r \in offsets : r.e = ei /\ r.s = k
OffsetOf(offsets, ei, k) == (CHOOSE r \in offsets : r.e = ei /\ r.s = k).off

\* lines 590-607: shift the movable end points of each offset segment
RECURSIVE ApplyOffsets(_, _, _, _, _)
ApplyOffsets(pts, offsets, ei, k, adjusted) ==
    IF k > Len(pts) - 2 THEN adjusted
    ELSE IF ~HasOffset(offsets, ei, k) \/ OffsetOf(offsets, ei, k) = 0
    THEN ApplyOffsets(pts, offsets, ei, k + 1, adjusted)
    ELSE LET off == OffsetOf(offsets, ei, k)
             p1 == pts[k]
             p2 == pts[k + 1]
             moveP1 == k >= 3
             moveP2 == k + 1 <= Len(pts) - 2
             a1 == IF p1.y = p2.y
                   THEN IF moveP1 THEN [adjusted EXCEPT ![k].y = p1.y + off] ELSE adjusted
                   ELSE IF p1.x = p2.x
                   THEN IF moveP1 THEN [adjusted EXCEPT ![k].x = p1.x + off] ELSE adjusted
                   ELSE adjusted
             a2 == IF p1.y = p2.y
                   THEN IF moveP2 THEN [a1 EXCEPT ![k + 1].y = p2.y + off] ELSE a1
                   ELSE IF p1.x = p2.x
                   THEN IF moveP2 THEN [a1 EXCEPT ![k + 1].x = p2.x + off] ELSE a1
                   ELSE a1
         IN ApplyOffsets(pts, offsets, ei, k + 1, a2)

\* lines 613-641: rebuild the polyline, repairing diagonals
RECURSIVE Reorthogonalise(_, _, _)
Reorthogonalise(adjusted, i, result) ==
    IF i > Len(adjusted) THEN result
    ELSE LET prv == result[Len(result)]
             cur == adjusted[i]
             diagonal == prv.x # cur.x /\ prv.y # cur.y
         IN IF ~diagonal THEN Reorthogonalise(adjusted, i + 1, Append(result, cur))
            ELSE IF Len(result) = 2
            THEN Reorthogonalise(adjusted, i + 1,
                    Append([result EXCEPT ![2] = Pt(prv.x, cur.y)], cur))
            ELSE IF i = Len(adjusted) - 1
            THEN result \o << Pt(cur.x, prv.y), adjusted[i + 1] >>
            ELSE Reorthogonalise(adjusted, i + 1,
                    result \o << Pt(prv.x, cur.y), cur >>)

\* lines 572-644 for one edge
SeparatedPoints(pts, offsets, ei) ==
    IF ~\E k \in 2 .. Len(pts) - 2 : HasOffset(offsets, ei, k) THEN pts
    ELSE LET adjusted == ApplyOffsets(pts, offsets, ei, 2, pts)
         IN simplifyPath(Reorthogonalise(adjusted, 2, << adjusted[1] >>))

\* the points of every returned edge
separateOverlappingEdges(paths, sep) ==
    IF sep <= 0 \/ Len(paths) <= 1 THEN paths
    ELSE LET offsets == Offsets(paths, sep)
         IN IF offsets = {} THEN paths
            ELSE [ei \in 1 .. Len(paths) |-> SeparatedPoints(paths[ei], offsets, ei)]

\* the path of every returned edge (lines 455-458, 565-568, 643)
SeparatedPaths(out, radius) ==
    [ei \in 1 .. Len(out) |-> waypointsToSvgPath(out[ei], radius)]

----------------------------------------------------------------------------
(* Idle values of each component, for the specifications that do not run it *)

RouteIdle ==
    /\ rin = [sx |-> 0, sy |-> 0, tx |-> 0, ty |-> 0, nodes |-> {},
              cfg |-> [sourceDir |-> "bottom", targetDir |-> "top",
                       sourceStubLength |-> 0, targetStubLength |-> 0,
                       padding |-> 0, bendPenalty |-> 0]]
    /\ rpc = "idle" /\ waypoints = << >>
    /\ heap = << >> /\ dist = << >> /\ prev = << >>
    /\ prevDir = << >> /\ visited = << >> /\ rout = << >>

SimpIdle == spIn = << >> /\ spOut = << >>

SepIdle ==
    /\ edgePaths = << >> /\ separation = 0 /\ sepRadius = 0
    /\ sepOut = << >> /\ sepPaths = << >> /\ sepPc = "idle"

RankIdle ==
    /\ g = [nodes |-> << >>, edges |-> << >>, minlen |-> 0]
    /\ inDeg = << >> /\ queue = << >> /\ rank = << >> /\ rankPc = "idle"

LayIdle ==
    ledges = << >> /\ inserted = << >> /\ childX = << >> /\ layPc = "idle"

VisIdle ==
    /\ vin = [nodes |-> << >>, edges |-> << >>]
    /\ hiddenIds = {} /\ visibleNodes = << >> /\ visibleEdges = << >>
    /\ visPc = "idle"

PortIdle ==
    pin = << >> /\ srcInfo = << >> /\ tgtInfo = << >> /\ portPc = "idle"

MhIdle ==
    mhData = << >> /\ pushed = 0 /\ popped = << >> /\ pushLog = << >>

GraphIdle ==
    gNodes = << >> /\ gEdges = << >> /\ gCall = << >> /\ gStart = << >>

AuxIdle == LayIdle /\ VisIdle /\ PortIdle /\ MhIdle /\ GraphIdle

CoreIdle == RouteIdle /\ SimpIdle /\ SepIdle /\ RankIdle

----------------------------------------------------------------------------
(* The router's inputs *)

MaxPortX == 5
MaxObstacles == 4

\* port columns half a pixel apart: neighbours are within the 1 px tolerance
SourceXs == { 2 * i : i \in 3 .. MaxPortX }
TargetXs == {6, 8, 10}
SourceYs == {0, 16}
TargetYs == {10, 16}

\* host nodes {x, y, width, height}; with padding 2 the first four inflate to
\* rects that close a ring around the point (8, 8)
NodeCandidates ==
    << [x |-> 8,  y |-> 4,  width |-> 0,  height |-> 0],
       [x |-> 6,  y |-> 6,  width |-> 0,  height |-> 4],
       [x |-> 8,  y |-> 12, width |-> 0,  height |-> 0],
       [x |-> 10, y |-> 6,  width |-> 0,  height |-> 4],
       [x |-> 8,  y |-> 8,  width |-> 0,  height |-> 0],
       [x |-> 0,  y |-> 6,  width |-> 2,  height |-> 0] >>

Scenes == { { NodeCandidates[i] : i \in 1 .. k } : k \in 0 .. Min(MaxObstacles, Len(NodeCandidates)) }

Configs ==
    [ sourceDir : Dirs, targetDir : Dirs,
      sourceStubLength : {2}, targetStubLength : {2},
      padding : {2}, bendPenalty : {Px} ]

\* edgeSeparation and bendRadius of the configuration
Separations == {0, 4}
BendRadii == {0, 8}

RouteInputs ==
    [ sx : SourceXs, sy : SourceYs, tx : TargetXs, ty : TargetYs,
      nodes : Scenes, cfg : Configs ]

----------------------------------------------------------------------------
(* computeOrthogonalPath as a state machine *)

RouteInit ==
    /\ rin \in RouteInputs
    /\ rpc = "entry" /\ waypoints = << >>
    /\ heap = << >> /\ dist = << >> /\ prev = << >>
    /\ prevDir = << >> /\ visited = << >> /\ rout = << >>
    /\ SimpIdle /\ SepIdle /\ RankIdle /\ AuxIdle

\* lines 279-286
RouteShortcut ==
    /\ rpc = "entry"
    /\ TakesShortcut(rin)
    /\ rout' = ShortcutPoints(rin)
    /\ rpc' = "done"
    /\ UNCHANGED <<rin, waypoints, heap, dist, prev, prevDir, visited, simpVars, sepVars, rankVars, auxVars>>

\* lines 332-335
RouteStubBlocked ==
    /\ rpc = "entry"
    /\ ~TakesShortcut(rin)
    /\ (startIdx(rin) = 0 \/ endIdx(rin) = 0)
    /\ rout' = FallbackPoints(rin)
    /\ rpc' = "done"
    /\ UNCHANGED <<rin, waypoints, heap, dist, prev, prevDir, visited, simpVars, sepVars, rankVars, auxVars>>

\* lines 383-391
RouteSearchInit ==
    /\ rpc = "entry"
    /\ ~TakesShortcut(rin)
    /\ startIdx(rin) # 0 /\ endIdx(rin) # 0
    /\ waypoints' = Waypoints(rin)
    /\ LET n == Len(Waypoints(rin))
       IN /\ dist' = [[i \in 1 .. n |-> INF] EXCEPT ![startIdx(rin)] = 0]
          /\ prev' = [i \in 1 .. n |-> 0]
          /\ prevDir' = [i \in 1 .. n |-> "null"]
          /\ visited' = [i \in 1 .. n |-> FALSE]
    /\ heap' = HeapPush(<< >>, [cost |-> 0, idx |-> startIdx(rin)])
    /\ rpc' = "search"
    /\ UNCHANGED <<rin, rout, simpVars, sepVars, rankVars, auxVars>>

\* lines 394-395: a stale heap entry
DijkstraSkip ==
    /\ rpc = "search" /\ Len(heap) > 0
    /\ visited[HeapTop(heap).idx]
    /\ heap' = HeapPopRest(heap)
    /\ UNCHANGED <<rin, waypoints, rpc, dist, prev, prevDir, visited, rout, simpVars, sepVars, rankVars, auxVars>>

\* lines 394-397: the target is popped
DijkstraReachTarget ==
    /\ rpc = "search" /\ Len(heap) > 0
    /\ ~visited[HeapTop(heap).idx]
    /\ HeapTop(heap).idx = WaypointIndex(waypoints, targetStubStart(rin))
    /\ heap' = HeapPopRest(heap)
    /\ visited' = [visited EXCEPT ![HeapTop(heap).idx] = TRUE]
    /\ rpc' = "exit"
    /\ UNCHANGED <<rin, waypoints, dist, prev, prevDir, rout, simpVars, sepVars, rankVars, auxVars>>

\* lines 394-412: pop a waypoint and relax its edges
DijkstraExpand ==
    /\ rpc = "search" /\ Len(heap) > 0
    /\ ~visited[HeapTop(heap).idx]
    /\ HeapTop(heap).idx # WaypointIndex(waypoints, targetStubStart(rin))
    /\ LET top == HeapTop(heap)
           st0 == [dist |-> dist, prev |-> prev, prevDir |-> prevDir,
                   heap |-> HeapPopRest(heap),
                   visited |-> [visited EXCEPT ![top.idx] = TRUE]]
           st1 == Relax(rin, adj(rin, waypoints, top.idx), 1, top.cost, top.idx, st0)
       IN /\ dist' = st1.dist
          /\ prev' = st1.prev
          /\ prevDir' = st1.prevDir
          /\ heap' = st1.heap
          /\ visited' = st1.visited
    /\ UNCHANGED <<rin, waypoints, rpc, rout, simpVars, sepVars, rankVars, auxVars>>

LoopOver == rpc = "exit" \/ (rpc = "search" /\ Len(heap) = 0)

\* lines 416-419
RouteUnreachable ==
    /\ LoopOver
    /\ dist[WaypointIndex(waypoints, targetStubStart(rin))] = INF
    /\ rout' = FallbackPoints(rin)
    /\ rpc' = "done"
    /\ UNCHANGED <<rin, waypoints, heap, dist, prev, prevDir, visited, simpVars, sepVars, rankVars, auxVars>>

\* lines 421-438
RouteReconstruct ==
    /\ LoopOver
    /\ dist[WaypointIndex(waypoints, targetStubStart(rin))] # INF
    /\ rout' = RoutedPoints(rin, waypoints, prev)
    /\ rpc' = "done"
    /\ UNCHANGED <<rin, waypoints, heap, dist, prev, prevDir, visited, simpVars, sepVars, rankVars, auxVars>>

\* src/lib/EdgeRoutingProvider.jsx 183-205: the routed edge and a second edge
\* between the same two ports go through the separator
RouteSeparate ==
    /\ rpc = "done"
    /\ sepPc = "idle"
    /\ \E sep \in Separations, radius \in BendRadii :
          /\ edgePaths' = << rout, rout >>
          /\ separation' = sep
          /\ sepRadius' = radius
          /\ sepOut' = separateOverlappingEdges(edgePaths', sep)
          /\ sepPaths' = SeparatedPaths(sepOut', radius)
    /\ sepPc' = "done"
    /\ UNCHANGED <<routeVars, simpVars, rankVars, auxVars>>

RouteNext ==
    \/ RouteShortcut
    \/ RouteStubBlocked
    \/ RouteSearchInit
    \/ DijkstraSkip
    \/ DijkstraReachTarget
    \/ DijkstraExpand
    \/ RouteUnreachable
    \/ RouteReconstruct
    \/ RouteSeparate

RouteSpec == RouteInit /\ [][RouteNext]_vars

----------------------------------------------------------------------------
(* simplifyPath applied repeatedly to an axis-aligned point sequence *)

MaxSimpX == 1
MaxSimpY == 2
MaxPathLen == 5

SimpGrid == { Pt(x, y) : x \in 0 .. MaxSimpX, y \in 0 .. MaxSimpY }

\* axis-aligned sequences of exactly n points (repeated points and doubling
\* back allowed)
RECURSIVE AlignedPaths(_)
AlignedPaths(n) ==
    IF n = 0 THEN { << >> }
    ELSE IF n = 1 THEN { << p >> : p \in SimpGrid }
    ELSE UNION { { Append(s, p) : p \in { q \in SimpGrid : q.x = s[Len(s)].x \/ q.y = s[Len(s)].y } }
                 : s \in AlignedPaths(n - 1) }

SimpInit ==
    /\ spIn \in UNION { AlignedPaths(n) : n \in 0 .. MaxPathLen }
    /\ spOut = << >>
    /\ RouteIdle /\ SepIdle /\ RankIdle /\ AuxIdle

SimplifyFirst ==
    /\ Len(spOut) = 0
    /\ spOut' = << simplifyPath(spIn) >>
    /\ UNCHANGED <<spIn, routeVars, sepVars, rankVars, auxVars>>

SimplifyAgain ==
    /\ Len(spOut) = 1
    /\ spOut' = Append(spOut, simplifyPath(spOut[1]))
    /\ UNCHANGED <<spIn, routeVars, sepVars, rankVars, auxVars>>

SimpNext == SimplifyFirst \/ SimplifyAgain

SimpSpec == SimpInit /\ [][SimpNext]_vars

----------------------------------------------------------------------------
(* Properties of computeOrthogonalPath *)

\* consecutive points differ in exactly one coordinate
AxisAligned(p, q) == (p.x = q.x) # (p.y = q.y)
Orthogonal(points) ==
    \A i \in 1 .. Len(points) - 1 : AxisAligned(points[i], points[i + 1])

\* the segment p-q has its fixed coordinate strictly inside o and its range
\* overlapping o's open extent
SegmentEnters(p, q, o) ==
    \/ /\ p.y = q.y
       /\ p.y > o.top /\ p.y < o.bottom
       /\ Max(p.x, q.x) > o.left /\ Min(p.x, q.x) < o.right
    \/ /\ p.x = q.x
       /\ p.x > o.left /\ p.x < o.right
       /\ Max(p.y, q.y) > o.top /\ Min(p.y, q.y) < o.bottom

RouteDone == rpc = "done"
ViaShortcut == RouteDone /\ TakesShortcut(rin)
ViaStubBlocked == RouteDone /\ ~TakesShortcut(rin) /\ (startIdx(rin) = 0 \/ endIdx(rin) = 0)
ViaSearch == RouteDone /\ ~TakesShortcut(rin) /\ startIdx(rin) # 0 /\ endIdx(rin) # 0
ViaUnreachable == ViaSearch /\ dist[endIdx(rin)] = INF
ViaDijkstra == ViaSearch /\ dist[endIdx(rin)] # INF

\* C1: every pair of consecutive points of the returned polyline differs in
\* exactly one coordinate, whichever branch produced it.
C1_Orthogonal == RouteDone => Orthogonal(rout)

SShape(in) ==
    LET sp == Pt(in.sx, in.sy)
        tp == Pt(in.tx, in.ty)
        a  == sourceStubEnd(in)
        b  == targetStubStart(in)
        sv == in.cfg.sourceDir \in {"top", "bottom"}
        tv == in.cfg.targetDir \in {"top", "bottom"}
    IN CASE sv /\ tv   -> << sp, a, Pt(a.x, (a.y + b.y) \div 2), Pt(b.x, (a.y + b.y) \div 2), b, tp >>
         [] ~sv /\ ~tv -> << sp, a, Pt((a.x + b.x) \div 2, a.y), Pt((a.x + b.x) \div 2, b.y), b, tp >>
         [] OTHER      -> << sp, a, Pt(b.x, a.y), b, tp >>

StubEndInsideObstacle(in) ==
    \/ pointStrictlyInsideAnyObstacle(sourceStubEnd(in).x, sourceStubEnd(in).y, Obstacles(in))
    \/ pointStrictlyInsideAnyObstacle(targetStubStart(in).x, targetStubStart(in).y, Obstacles(in))

\* C5: whenever a stub end lies strictly inside an inflated obstacle, or the
\* search exhausts the frontier without reaching the target, the call
\* returns the (simplified) S-shape fallback.
C5_FallbackWhenBlocked ==
    (RouteDone /\ (StubEndInsideObstacle(rin) \/ ViaUnreachable))
        => rout = simplifyPath(SShape(rin))

\* source directly above target, both stubs vertical and facing each other,
\* nothing in the corridor between the two ports
StraightDown(in) ==
    /\ in.cfg.sourceDir = "bottom" /\ in.cfg.targetDir = "top"
    /\ in.sx = in.tx /\ in.sy < in.ty
    /\ \A o \in Obstacles(in) : ~SegmentEnters(Pt(in.sx, in.sy), Pt(in.tx, in.ty), o)

\* C7: every returned polyline has at least 4 points and the form
\* [sourcePort, sourceStubEnd, ..., targetStubStart, targetPort]; the
\* straight-down case has exactly 4.
C7_FourPointForm ==
    RouteDone =>
        /\ Len(rout) >= 4
        /\ rout[1] = Pt(rin.sx, rin.sy) /\ rout[2] = sourceStubEnd(rin)
        /\ rout[Len(rout) - 1] = targetStubStart(rin) /\ rout[Len(rout)] = Pt(rin.tx, rin.ty)
        /\ (StraightDown(rin) => Len(rout) = 4)

\* C7 (amended): every returned polyline is non-empty, begins at the source
\* port and ends at the target port (so it has at least 2 points unless the
\* ports coincide); stub ends collinear with their neighbours are dropped,
\* so the straight-down case returns exactly the two ports.
C7_PortsAndStraightDown ==
    RouteDone =>
        /\ Len(rout) >= 1
        /\ rout[1] = Pt(rin.sx, rin.sy)
        /\ rout[Len(rout)] = Pt(rin.tx, rin.ty)
        /\ (StraightDown(rin) => rout = << Pt(rin.sx, rin.sy), Pt(rin.tx, rin.ty) >>)

\* the straight-down case has been routed by the search
C7_StraightDownRouted == ViaDijkstra /\ StraightDown(rin) /\ Len(rout) = 2

----------------------------------------------------------------------------
(* separateOverlappingEdges on a batch of axis-aligned polylines *)

MaxGuide == 2

\* polylines of the router's shape: port, stub end, a route between the two
\* stub ends (straight, one corner, or two corners through a guide line),
\* stub start, port; either as built or after simplifyPath
SepSourcePorts == { Pt(8, 0) }
SepSourceDirs == {"bottom", "right"}
SepTargetDirs == {"top", "left"}
SepTargetPorts == { Pt(8, 32), Pt(24, 32) }
SepGuides == { 8 * i : i \in 1 .. MaxGuide }
SepStubLengths == {4}
SepSeparations == Separations \cup {-4}

Middles(a, b) ==
    { << >>, << Pt(b.x, a.y) >>, << Pt(a.x, b.y) >> }
    \cup { << Pt(m, a.y), Pt(m, b.y) >> : m \in SepGuides }
    \cup { << Pt(a.x, m), Pt(b.x, m) >> : m \in SepGuides }

ShapedPolylines ==
    UNION { LET a == computeStubEnd(sp.x, sp.y, sd, l)
                b == computeStubEnd(tp.x, tp.y, td, l)
            IN { << sp, a >> \o mid \o << b, tp >> : mid \in Middles(a, b) }
            : <<sp, sd, tp, td, l>> \in
                SepSourcePorts \X SepSourceDirs \X SepTargetPorts \X SepTargetDirs \X SepStubLengths }

SepPolylines ==
    { pl \in ShapedPolylines \cup { simplifyPath(q) : q \in ShapedPolylines } :
        \A i \in 1 .. Len(pl) - 1 : AxisAligned(pl[i], pl[i + 1]) }


SepInit ==
    /\ edgePaths \in { << a >> : a \in SepPolylines }
                     \cup { << a, b >> : a \in SepPolylines, b \in SepPolylines }
    /\ separation \in SepSeparations
    /\ sepRadius \in BendRadii
    /\ sepOut = << >> /\ sepPaths = << >>
    /\ sepPc = "call"
    /\ RouteIdle /\ SimpIdle /\ RankIdle /\ AuxIdle

Separate ==
    /\ sepPc = "call"
    /\ sepOut' = separateOverlappingEdges(edgePaths, separation)
    /\ sepPaths' = SeparatedPaths(sepOut', sepRadius)
    /\ sepPc' = "done"
    /\ UNCHANGED <<edgePaths, separation, sepRadius, routeVars, simpVars, rankVars, auxVars>>

SepNext == Separate

SepSpec == SepInit /\ [][SepNext]_vars

SepDone == sepPc = "done"

\* the segments of a polyline that start at the points ks
SegmentsOf(pts, ks) ==
    UNION { { SegmentAt(pts, 0, k)[j] : j \in 1 .. Len(SegmentAt(pts, 0, k)) } : k \in ks }

\* the interior (non-stub) segments of an input polyline: lines 465-466
InteriorSegments(pts) == SegmentsOf(pts, 2 .. Len(pts) - 2)

RangesTouch(A, B) == A.lo <= B.hi /\ B.lo <= A.hi

\* the output polylines of e1 and e2 have segments of A's orientation, each
\* still alongside its input segment, at least the separation apart
DisplacedApart(e1, A, e2, B) ==
    \E A2 \in SegmentsOf(sepOut[e1], 1 .. Len(sepOut[e1]) - 1),
       B2 \in SegmentsOf(sepOut[e2], 1 .. Len(sepOut[e2]) - 1) :
        /\ A2.orientation = A.orientation /\ B2.orientation = A.orientation
        /\ RangesTouch(A2, A) /\ RangesTouch(B2, B)
        /\ Abs(A2.fixedCoord - B2.fixedCoord) >= separation

\* C3: when every input polyline is axis-aligned and separation > 0, every
\* output polyline is axis-aligned.
C3_SeparationKeepsOrthogonal ==
    (SepDone /\ separation > 0) =>
        \A e \in 1 .. Len(sepOut) : Orthogonal(sepOut[e])

\* C4: with separation > 0, two interior segments of different edges that
\* lie on the same line with overlapping or touching ranges are, in the
\* output, at least the separation apart, whatever the polylines' length.
C4_OverlapsDisplaced ==
    (SepDone /\ separation > 0) =>
        \A e1, e2 \in 1 .. Len(edgePaths) : e1 # e2 =>
            \A A \in InteriorSegments(edgePaths[e1]), B \in InteriorSegments(edgePaths[e2]) :
                (A.orientation = B.orientation /\ A.fixedCoord = B.fixedCoord /\ RangesTouch(A, B))
                    => DisplacedApart(e1, A, e2, B)

\* no interior segment of one edge lies on the line of an interior segment
\* of another edge with an overlapping range (touching counts as overlapping)
NoSharedInteriorSegment ==
    \A e1, e2 \in 1 .. Len(edgePaths) : e1 # e2 =>
        \A A \in InteriorSegments(edgePaths[e1]), B \in InteriorSegments(edgePaths[e2]) :
            ~(A.orientation = B.orientation /\ A.fixedCoord = B.fixedCoord /\ RangesTouch(A, B))

\* C16: separateOverlappingEdges returns every edge's points unchanged, with
\* the path generated from them, when separation <= 0, when the batch holds
\* at most one edge, or when no two different edges share an overlapping
\* collinear interior segment; a polyline with fewer than 4 points is
\* returned unchanged in every batch.
C16_PassThrough ==
    SepDone =>
        /\ (separation <= 0 \/ Len(edgePaths) <= 1 \/ NoSharedInteriorSegment) =>
              /\ sepOut = edgePaths
              /\ \A e \in 1 .. Len(edgePaths) :
                    sepPaths[e] = waypointsToSvgPath(edgePaths[e], sepRadius)
        /\ \A e \in 1 .. Len(edgePaths) :
              Len(edgePaths[e]) < 4 => sepOut[e] = edgePaths[e]

\* two edges with interior segments on one line, their ranges apart, have
\* gone through the separator with separation > 0
C16_SameLineRangesApart ==
    /\ SepDone /\ separation > 0 /\ Len(edgePaths) = 2
    /\ NoSharedInteriorSegment
    /\ \E A \in InteriorSegments(edgePaths[1]), B \in InteriorSegments(edgePaths[2]) :
          A.orientation = B.orientation /\ A.fixedCoord = B.fixedCoord

----------------------------------------------------------------------------
(* Properties of waypointsToSvgPath, on the paths the separator returns.    *)
(* Path commands carry twice the point coordinates, so lengths measured     *)
(* between command coordinates are twice the lengths between points.        *)

Cross(ax, ay, bx, by) == ax * by - ay * bx

\* the neighbours of interior vertex i do not lie on one line through it
NonCollinear(points, i) ==
    Cross(points[i - 1].x - points[i].x, points[i - 1].y - points[i].y,
          points[i + 1].x - points[i].x, points[i + 1].y - points[i].y) # 0

ManhattanLen(a, b) == Abs(a.x - b.x) + Abs(a.y - b.y)

\* twice min(bendRadius, incomingLen / 2, outgoingLen / 2)
TwiceCornerRadius(points, i, bendRadius) ==
    Min(2 * bendRadius,
        Min(ManhattanLen(points[i - 1], points[i]), ManhattanLen(points[i], points[i + 1])))

\* the command position (x, y) lies on the segment from vertex v towards
\* point p, at distance r2 / 2 from v
OnSegmentAtDistance(x, y, v, p, r2) ==
    LET vx == x - 2 * v.x
        vy == y - 2 * v.y
    IN /\ Cross(vx, vy, p.x - v.x, p.y - v.y) = 0
       /\ vx * (p.x - v.x) + vy * (p.y - v.y) >= 0
       /\ vx * vx + vy * vy = r2 * r2

\* path[k], path[k + 1] round the corner at vertex i as C17 says
RoundedCorner(path, k, points, i, r2) ==
    /\ k + 1 <= Len(path)
    /\ path[k].op = "L" /\ path[k + 1].op = "Q"
    /\ OnSegmentAtDistance(path[k].x, path[k].y, points[i], points[i - 1], r2)
    /\ path[k + 1].cx = 2 * points[i].x /\ path[k + 1].cy = 2 * points[i].y
    /\ OnSegmentAtDistance(path[k + 1].x, path[k + 1].y, points[i], points[i + 1], r2)

\* the commands of path from index k on draw the vertices of points from i
\* on: every vertex with non-collinear neighbours as C17 says, the others in
\* either form, the last point as a straight L
RECURSIVE CornersAsClaimed(_, _, _, _, _)
CornersAsClaimed(path, k, points, i, bendRadius) ==
    IF k > Len(path) THEN FALSE
    ELSE IF i >= Len(points) THEN k = Len(path) /\ path[k] = CmdL(points[Len(points)])
    ELSE LET r2 == TwiceCornerRadius(points, i, bendRadius)
             straight == /\ path[k] = CmdL(points[i])
                         /\ CornersAsClaimed(path, k + 1, points, i + 1, bendRadius)
             rounded == /\ RoundedCorner(path, k, points, i, r2)
                        /\ CornersAsClaimed(path, k + 2, points, i + 1, bendRadius)
             eitherForm == \/ path[k].op = "L"
                              /\ CornersAsClaimed(path, k + 1, points, i + 1, bendRadius)
                           \/ k + 1 <= Len(path) /\ path[k + 1].op = "Q"
                              /\ CornersAsClaimed(path, k + 2, points, i + 1, bendRadius)
         IN IF ~NonCollinear(points, i) THEN eitherForm
            ELSE IF r2 < Px \/ bendRadius <= 0 THEN straight
            ELSE rounded

\* C17: in waypointsToSvgPath every interior vertex with non-collinear
\* neighbours is rounded with r = min(bendRadius, incomingLen/2,
\* outgoingLen/2) (Manhattan lengths): an L to the point at distance r from
\* the vertex on the incoming segment, then a Q with its control point at the
\* vertex and its end at distance r on the outgoing segment; when r < 0.5 px
\* or bendRadius <= 0 the corner is a straight L to the vertex.
C17_CornerRadiusClamped ==
    SepDone =>
        \A e \in 1 .. Len(sepOut) :
            Len(sepOut[e]) >= 2 =>
                /\ sepPaths[e][1] = CmdM(sepOut[e][1])
                /\ CornersAsClaimed(sepPaths[e], 2, sepOut[e], 2, sepRadius)

----------------------------------------------------------------------------
(* Properties of simplifyPath *)

NoCollinearTriple(points) ==
    \A i \in 2 .. Len(points) - 1 :
        ~ \/ points[i - 1].x = points[i].x /\ points[i].x = points[i + 1].x
          \/ points[i - 1].y = points[i].y /\ points[i].y = points[i + 1].y

NoConsecutiveDuplicates(points) ==
    \A i \in 1 .. Len(points) - 1 : points[i] # points[i + 1]

\* C8: the result of one call has no three consecutive collinear points and
\* no consecutive duplicates, and a second call returns it unchanged.
C8_SimplifyIdempotent ==
    /\ Len(spOut) >= 1 =>
          (NoCollinearTriple(spOut[1]) /\ NoConsecutiveDuplicates(spOut[1]))
    /\ Len(spOut) = 2 => spOut[2] = spOut[1]

----------------------------------------------------------------------------
(* longestPathFromSource: src/lib/dagreLayout.js 17-44.  A graph is        *)
(* [nodes, edges, minlen]: g.nodes() and g.edges() in order, an edge a     *)
(* record [v, w], minlen the label every edge carries (0 when none is set, *)
(* as layoutGraphDagre builds its edges).                                  *)

\* g.node(id).rank is undefined
Unranked == -1

NodeSet(graph) == { graph.nodes[i] : i \in 1 .. Len(graph.nodes) }
EdgeSet(graph) == { graph.edges[i] : i \in 1 .. Len(graph.edges) }

\* line 26: (g.edge(e) || {}).minlen || 1
EdgeMinlen(graph) == IF graph.minlen = 0 THEN 1 ELSE graph.minlen

\* a variant that files each edge under its target: C10 must tell it apart
ChildrenByTarget(graph, id) ==
    LET es == SelectSeq(graph.edges, LAMBDA e : e.w = id)
    IN [i \in 1 .. Len(es) |-> es[i].v]

\* line 27: adj.get(id), the targets of the edges leaving id
Children(graph, id) ==
    LET es == SelectSeq(graph.edges, LAMBDA e : e.v = id)
    IN [i \in 1 .. Len(es) |-> es[i].w]

\* lines 21-29
InDegrees(graph) ==
    [n \in NodeSet(graph) |-> Cardinality({ i \in 1 .. Len(graph.edges) : graph.edges[i].w = n })]

\* line 31
Sources(graph) == SelectSeq(graph.nodes, LAMBDA n : InDegrees(graph)[n] = 0)

\* a variant that keeps the first rank a child is given: C9 must tell it apart
ChildRankFirstWins(childRank, parentRank, minlen) ==
    IF childRank = Unranked THEN parentRank + minlen ELSE childRank

\* line 38: Math.max(child.rank ?? 0, parentRank + minlen)
ChildRank(childRank, parentRank, minlen) ==
    Max(IF childRank = Unranked THEN 0 ELSE childRank, parentRank + minlen)

\* lines 36-41; st = [inDeg, queue, rank]
RECURSIVE VisitChildren(_, _, _, _, _)
VisitChildren(st, children, i, parentRank, minlen) ==
    IF i > Len(children) THEN st
    ELSE LET c == children[i]
             deg == st.inDeg[c] - 1
         IN VisitChildren(
                [inDeg |-> [st.inDeg EXCEPT ![c] = deg],
                 queue |-> IF deg = 0 THEN Append(st.queue, c) ELSE st.queue,
                 rank  |-> [st.rank EXCEPT ![c] = ChildRank(@, parentRank, minlen)]],
                children, i + 1, parentRank, minlen)

\* lines 18-32
RankSetup(graph) ==
    [inDeg |-> InDegrees(graph),
     queue |-> Sources(graph),
     rank  |-> [n \in NodeSet(graph) |-> IF InDegrees(graph)[n] = 0 THEN 0 ELSE Unranked]]

\* lines 34-42: one iteration of the while loop
RankStep(graph, st) ==
    LET id == Head(st.queue)
    IN VisitChildren([st EXCEPT !.queue = Tail(st.queue)],
                     Children(graph, id), 1, st.rank[id], EdgeMinlen(graph))

RECURSIVE RankLoop(_, _)
RankLoop(graph, st) ==
    IF st.queue = << >> THEN st.rank ELSE RankLoop(graph, RankStep(graph, st))

\* the ranks a whole call leaves in g
longestPathFromSource(graph) == RankLoop(graph, RankSetup(graph))

----------------------------------------------------------------------------
(* The ranker's inputs: the acyclic graphs on up to MaxNodes nodes.  Every  *)
(* acyclic graph can be numbered so that its edges run from a smaller to a *)
(* larger node; g.nodes() lists the nodes sources first or sinks first.    *)

MaxNodes == 4
MaxChain == 2

NodeOrders(n) == { [i \in 1 .. n |-> i], [i \in 1 .. n |-> n + 1 - i] }

ForwardPairs(n) == { e \in (1 .. n) \X (1 .. n) : e[1] < e[2] }

\* the edges in the order of their insertion, here by source then target
EdgeSeq(n, E) ==
    LET codes == SortedSeq({ e[1] * (n + 1) + e[2] : e \in E })
    IN [i \in 1 .. Len(codes) |-> [v |-> codes[i] \div (n + 1), w |-> codes[i] % (n + 1)]]

RankGraphs ==
    UNION { { [nodes |-> o, edges |-> EdgeSeq(n, E), minlen |-> m]
              : o \in NodeOrders(n), E \in SUBSET ForwardPairs(n), m \in {0, 1, 2} }
            : n \in 1 .. MaxNodes }

RankInit ==
    /\ g \in RankGraphs
    /\ inDeg = << >> /\ queue = << >> /\ rank = << >>
    /\ rankPc = "entry"
    /\ RouteIdle /\ SimpIdle /\ SepIdle /\ AuxIdle

\* lines 18-32
RankBegin ==
    /\ rankPc = "entry"
    /\ inDeg' = RankSetup(g).inDeg
    /\ queue' = RankSetup(g).queue
    /\ rank' = RankSetup(g).rank
    /\ rankPc' = "loop"
    /\ UNCHANGED <<g, routeVars, simpVars, sepVars, auxVars>>

\* lines 34-42
RankVisit ==
    /\ rankPc = "loop"
    /\ queue # << >>
    /\ LET st == RankStep(g, [inDeg |-> inDeg, queue |-> queue, rank |-> rank])
       IN inDeg' = st.inDeg /\ queue' = st.queue /\ rank' = st.rank
    /\ UNCHANGED <<g, rankPc, routeVars, simpVars, sepVars, auxVars>>

\* line 34: the queue is empty
RankReturn ==
    /\ rankPc = "loop"
    /\ queue = << >>
    /\ rankPc' = "done"
    /\ UNCHANGED <<g, inDeg, queue, rank, routeVars, simpVars, sepVars, auxVars>>

RankNext == RankBegin \/ RankVisit \/ RankReturn

RankSpec == RankInit /\ [][RankNext]_vars

----------------------------------------------------------------------------
(* Properties of longestPathFromSource *)

RankDone == rankPc = "done"

ParentsOf(graph, v) == { e.v : e \in { d \in EdgeSet(graph) : d.w = v } }
ChildrenOf(graph, v) == { e.w : e \in { d \in EdgeSet(graph) : d.v = v } }

\* the length, each edge counting its minlen, of the longest path from any
\* source to v
RECURSIVE LongestPathTo(_, _)
LongestPathTo(graph, v) ==
    IF ParentsOf(graph, v) = {} THEN 0
    ELSE LET ls == { LongestPathTo(graph, u) + EdgeMinlen(graph) : u \in ParentsOf(graph, v) }
         IN CHOOSE l \in ls : \A k \in ls : k <= l

\* C9: on every acyclic graph each node's rank is the length of the longest
\* path from any source to it (each edge counting its minlen, 1 when unset):
\* sources and isolated nodes get 0, and rank(v) >= rank(u) + 1 for every
\* edge (u, v).
C9_RankIsLongestPath ==
    RankDone =>
        /\ \A v \in NodeSet(g) :
              /\ rank[v] = LongestPathTo(g, v)
              /\ ParentsOf(g, v) = {} => rank[v] = 0
        /\ \A e \in EdgeSet(g) : rank[e.w] >= rank[e.v] + 1

\* a node reached from two parents of different rank
C9_TwoParentsOfDifferentRank ==
    /\ RankDone
    /\ \E v \in NodeSet(g) : \E u1, u2 \in ParentsOf(g, v) : rank[u1] < rank[u2]

\* the graph with a chain of k fresh successors below node c
AddChain(graph, c, k) ==
    LET n == Len(graph.nodes)
    IN [graph EXCEPT
          !.nodes = graph.nodes \o [i \in 1 .. k |-> n + i],
          !.edges = graph.edges \o
                    [i \in 1 .. k |-> [v |-> IF i = 1 THEN c ELSE n + i - 1, w |-> n + i]]]

\* the siblings of c keep their rank when a chain is added below c
ChainKeepsSiblingRanks(p, c) ==
    \A k \in 1 .. MaxChain :
        \A s \in ChildrenOf(g, p) \ {c} :
            longestPathFromSource(AddChain(g, c, k))[s] = rank[s]

----------------------------------------------------------------------------
(* layoutGraphDagre (src/lib/dagreLayout.js): the order in which the edges  *)
(* reach dagre, and the x order dagre gives a source's children.  An edge   *)
(* is [source, target, sourceHandle, order]; sourceHandle is the numeric    *)
(* suffix of "output-<i>", order is edge.data.order.                        *)

NoHandle == -1     \* sourceHandle undefined
NoOrder  == -2     \* edge.data.order undefined

\* m(h): the numeric suffix of (h || "output-0")
handleIndex(h) == IF h = NoHandle THEN 0 ELSE h

\* a.data?.order ?? m(a.sourceHandle)
orderKey(e) == IF e.order # NoOrder THEN e.order ELSE handleIndex(e.sourceHandle)

\* the keys of edgesBySource, in the Map's insertion order
RECURSIVE SourceOrder(_, _)
SourceOrder(edges, seen) ==
    IF edges = << >> THEN << >>
    ELSE IF Head(edges).source \in seen THEN SourceOrder(Tail(edges), seen)
    ELSE <<Head(edges).source>>
            \o SourceOrder(Tail(edges), seen \cup {Head(edges).source})

edgesBySource(edges, s) == SelectSeq(edges, LAMBDA e : e.source = s)

\* Array.prototype.sort is stable: e goes behind every entry the comparator
\* ob - oa does not put after it
RECURSIVE InsertDescending(_, _)
InsertDescending(sorted, e) ==
    IF sorted = << >> THEN <<e>>
    ELSE IF orderKey(Head(sorted)) >= orderKey(e)
         THEN <<Head(sorted)>> \o InsertDescending(Tail(sorted), e)
         ELSE <<e>> \o sorted

RECURSIVE SortDescending(_, _, _)
SortDescending(group, i, acc) ==
    IF i > Len(group) THEN acc
    ELSE SortDescending(group, i + 1, InsertDescending(acc, group[i]))

groupAsGiven(group) == group

\* lines 92-99: groups of two or more are sorted, the others left alone
sortGroup(group) ==
    IF Len(group) > 1 THEN SortDescending(group, 1, << >>) ELSE group

RECURSIVE SetEdgeLoop(_, _, _)
SetEdgeLoop(edges, sources, i) ==
    IF i > Len(sources) THEN << >>
    ELSE sortGroup(edgesBySource(edges, sources[i]))
            \o SetEdgeLoop(edges, sources, i + 1)

\* the arguments of the successive g.setEdge calls
setEdgeCalls(edges) == SetEdgeLoop(edges, SourceOrder(edges, {}), 1)

\* the claimed post-condition: children of one source stand left to right
\* in the order of their keys
ChildrenInKeyOrder(edges, x) ==
    \A i, j \in 1..Len(edges) :
        (/\ edges[i].source = edges[j].source
         /\ edges[i].target # edges[j].target
         /\ orderKey(edges[i]) < orderKey(edges[j]))
        => x[edges[i].target] < x[edges[j].target]

(* The layout's inputs: two sources, two children, any subset of the four   *)
(* edges between them, listed in either order.                              *)
MaxHandle == 1
LaySources == {1, 2}
LayChildren == {3, 4}
LayPairs == <<<<1, 3>>, <<1, 4>>, <<2, 3>>, <<2, 4>>>>
SourceHandles == {NoHandle} \cup 0..MaxHandle
OrderHints == {NoOrder, 0, 1}
Absent == [sourceHandle |-> NoHandle, order |-> NoOrder, present |-> FALSE]
EdgeChoices ==
    {Absent} \cup [sourceHandle : SourceHandles, order : OrderHints, present : {TRUE}]

RECURSIVE ChosenEdges(_, _, _)
ChosenEdges(choice, order, i) ==
    IF i > Len(order) THEN << >>
    ELSE LET k == order[i]
             c == choice[k]
         IN (IF c.present
             THEN <<[source |-> LayPairs[k][1], target |-> LayPairs[k][2],
                     sourceHandle |-> c.sourceHandle, order |-> c.order]>>
             ELSE << >>) \o ChosenEdges(choice, order, i + 1)

LayEdgeLists ==
    {ChosenEdges(choice, order, 1) :
        choice \in [1..Len(LayPairs) -> EdgeChoices],
        order \in {<<1, 2, 3, 4>>, <<4, 3, 2, 1>>}}

ChildPlacements ==
    {x \in [LayChildren -> 1..Cardinality(LayChildren)] :
        \A a, b \in LayChildren : a # b => x[a] # x[b]}

(* dagre is a dependency, not part of this repository: its placement is a   *)
(* choice.  The choice is the most favourable one for the post-condition:   *)
(* whenever some placement puts every source's children in key order,       *)
(* dagre.layout is taken to return such a placement.                        *)
DagreOutcomes(edges) ==
    LET good == {x \in ChildPlacements : ChildrenInKeyOrder(edges, x)}
    IN IF good # {} THEN good ELSE ChildPlacements

LayoutInit ==
    /\ ledges \in LayEdgeLists
    /\ inserted = << >> /\ childX = << >> /\ layPc = "entry"
    /\ CoreIdle /\ VisIdle /\ PortIdle /\ MhIdle /\ GraphIdle

\* lines 78-103
LayoutSetEdges ==
    /\ layPc = "entry"
    /\ inserted' = setEdgeCalls(ledges)
    /\ layPc' = "inserted"
    /\ UNCHANGED <<ledges, childX, coreVars, visVars, portVars, mhVars, graphVars>>

\* lines 105-122
LayoutDagre ==
    /\ layPc = "inserted"
    /\ childX' \in DagreOutcomes(inserted)
    /\ layPc' = "done"
    /\ UNCHANGED <<ledges, inserted, coreVars, visVars, portVars, mhVars, graphVars>>

LayoutNext == LayoutSetEdges \/ LayoutDagre

LayoutSpec == LayoutInit /\ [][LayoutNext]_vars

LayoutDone == layPc = "done"

LeftToRightIndex(e) ==
    IF e.order = NoOrder
    THEN (IF e.sourceHandle = NoHandle THEN 0 ELSE e.sourceHandle)
    ELSE e.order

Occurrences(seq, e) == Cardinality({i \in 1..Len(seq) : seq[i] = e})

----------------------------------------------------------------------------
(* getVisibleGraph (src/lib/OrthogonalEdge.jsx, lines 480-650).  A node is  *)
(* [id, isMerge, collapsed], an edge [source, target, isBypass]; ids are    *)
(* positive, 0 stands for null and undefined.                               *)

NoNode == 0

LastOf(S) == CHOOSE i \in S : \A j \in S : j <= i

\* childrenOf.get(id) || []
childrenOf(edges, id) ==
    LET out == SelectSeq(edges, LAMBDA e : e.source = id)
    IN [i \in 1..Len(out) |-> out[i].target]

ChildSet(edges, id) == {edges[i].target : i \in {k \in 1..Len(edges) : edges[k].source = id}}

\* parentOf.get(id): Map.set keeps the source of the last edge into id
parentOf(edges, id) ==
    LET into == {i \in 1..Len(edges) : edges[i].target = id}
    IN IF into = {} THEN NoNode ELSE edges[LastOf(into)].source

\* nodeMap.get(id)?.data?.isMerge
IsMergeNode(nodes, id) ==
    \E i \in 1..Len(nodes) : nodes[i].id = id /\ nodes[i].isMerge

\* a traversal from frontier that does not go past stop
RECURSIVE Walk(_, _, _, _)
Walk(edges, frontier, seen, stop) ==
    IF frontier \subseteq seen THEN seen
    ELSE LET new == frontier \ seen
         IN Walk(edges, UNION {ChildSet(edges, n) : n \in new \ {stop}},
                 seen \cup new, stop)

\* lines 503-514: everything reachable from startId, startId included
reachSet(edges, startId) == Walk(edges, {startId}, {}, NoNode)

\* lines 516-533: the first merge node, in breadth-first order, that every
\* branch child reaches
RECURSIVE MergeSearch(_, _, _, _, _)
MergeSearch(nodes, edges, pending, seen, branchChildren) ==
    IF pending = << >> THEN NoNode
    ELSE LET id == Head(pending)
         IN IF id \in seen
            THEN MergeSearch(nodes, edges, Tail(pending), seen, branchChildren)
            ELSE IF /\ IsMergeNode(nodes, id)
                    /\ \A k \in 1..Len(branchChildren) :
                          id \in reachSet(edges, branchChildren[k])
                 THEN id
                 ELSE MergeSearch(nodes, edges,
                                  Tail(pending) \o childrenOf(edges, id),
                                  seen \cup {id}, branchChildren)

findMergeNode(nodes, edges, branchId) ==
    LET branchChildren == childrenOf(edges, branchId)
    IN IF Len(branchChildren) < 2 THEN NoNode
       ELSE MergeSearch(nodes, edges, branchChildren, {}, branchChildren)

\* lines 539-556: from startId (exclusive) to mergeId (inclusive)
collectBetween(edges, startId, mergeId) ==
    Walk(edges, ChildSet(edges, startId), {}, mergeId)

\* lines 561-575: from branchChildId (inclusive) to mergeId (exclusive)
collectBranchPath(edges, branchChildId, mergeId) ==
    Walk(edges, {branchChildId}, {}, mergeId) \ {mergeId}

\* every branch group collapsed, whatever the nodes' collapsed flags
AllGroupsHidden(nodes, edges) ==
    UNION {collectBetween(edges, nodes[i].id,
                          findMergeNode(nodes, edges, nodes[i].id)) :
              i \in {k \in 1..Len(nodes) :
                        /\ Len(childrenOf(edges, nodes[k].id)) >= 2
                        /\ findMergeNode(nodes, edges, nodes[k].id) # NoNode}}

\* lines 577-589: the full group collapses
FullGroupHidden(nodes, edges) ==
    UNION {collectBetween(edges, nodes[i].id,
                          findMergeNode(nodes, edges, nodes[i].id)) :
              i \in {k \in 1..Len(nodes) :
                        /\ nodes[k].collapsed
                        /\ Len(childrenOf(edges, nodes[k].id)) >= 2
                        /\ findMergeNode(nodes, edges, nodes[k].id) # NoNode}}

\* lines 591-607: the per-branch collapses, node by node
RECURSIVE BranchPathLoop(_, _, _, _)
BranchPathLoop(nodes, edges, i, hidden) ==
    IF i > Len(nodes) THEN hidden
    ELSE LET node == nodes[i]
             parent == parentOf(edges, node.id)
             mergeId == findMergeNode(nodes, edges, parent)
             skip == \/ ~node.collapsed
                     \/ node.id \in hidden
                     \/ parent = NoNode
                     \/ Len(childrenOf(edges, parent)) < 2
                     \/ mergeId = NoNode
         IN BranchPathLoop(nodes, edges, i + 1,
                IF skip THEN hidden
                ELSE hidden \cup collectBranchPath(edges, node.id, mergeId))

\* line 610
VisibleNodesOf(nodes, hidden) == SelectSeq(nodes, LAMBDA n : n.id \notin hidden)

BypassEdge(source, child) == [source |-> source, target |-> child, isBypass |-> TRUE]

\* a bypass edge for each child of the merge node, hidden or not
RECURSIVE BypassLoopToAnyChild(_, _, _, _, _)
BypassLoopToAnyChild(source, mergeChildren, k, hidden, acc) ==
    IF k > Len(mergeChildren) THEN acc
    ELSE LET child == mergeChildren[k]
             key == <<source, child>>
         IN BypassLoopToAnyChild(source, mergeChildren, k + 1, hidden,
                IF key \notin acc.keys
                THEN [keys |-> acc.keys \cup {key},
                      out |-> Append(acc.out, BypassEdge(source, child))]
                ELSE acc)

\* lines 627-643: one bypass edge for each visible child of the merge node,
\* unless one with the same key was pushed before
RECURSIVE BypassLoop(_, _, _, _, _)
BypassLoop(source, mergeChildren, k, hidden, acc) ==
    IF k > Len(mergeChildren) THEN acc
    ELSE LET child == mergeChildren[k]
             key == <<source, child>>
         IN BypassLoop(source, mergeChildren, k + 1, hidden,
                IF child \notin hidden /\ key \notin acc.keys
                THEN [keys |-> acc.keys \cup {key},
                      out |-> Append(acc.out, BypassEdge(source, child))]
                ELSE acc)

\* lines 616-646
RECURSIVE VisibleEdgeLoop(_, _, _, _, _)
VisibleEdgeLoop(nodes, edges, i, hidden, acc) ==
    IF i > Len(edges) THEN acc.out
    ELSE LET edge == edges[i]
             sourceHidden == edge.source \in hidden
             targetHidden == edge.target \in hidden
             mergeId == findMergeNode(nodes, edges, edge.source)
         IN VisibleEdgeLoop(nodes, edges, i + 1, hidden,
                IF ~sourceHidden /\ ~targetHidden
                THEN [acc EXCEPT !.out = Append(@, edge)]
                ELSE IF ~sourceHidden /\ targetHidden /\ mergeId # NoNode
                THEN BypassLoop(edge.source, childrenOf(edges, mergeId), 1,
                                hidden, acc)
                ELSE acc)

VisibleEdgesOf(nodes, edges, hidden) ==
    VisibleEdgeLoop(nodes, edges, 1, hidden, [keys |-> {}, out |-> << >>])

(* The filter's inputs: five nodes listed by id, at most MaxVisEdges edges  *)
(* that lead from a lower to a higher id (the graph is acyclic), listed by  *)
(* source and target, at most one merge node and one collapsed node.        *)
MaxVisEdges == 6
VisIds == {1, 2, 3, 4, 5}
VisPairs ==
    <<<<1, 2>>, <<1, 3>>, <<1, 4>>, <<1, 5>>, <<2, 3>>,
      <<2, 4>>, <<2, 5>>, <<3, 4>>, <<3, 5>>, <<4, 5>>>>
AtMostOne(S) == {{}} \cup {{x} : x \in S}

VisNodeList(merges, collapsed) ==
    [i \in 1..Cardinality(VisIds) |->
        [id |-> i, isMerge |-> i \in merges, collapsed |-> i \in collapsed]]

VisEdgeList(chosen) ==
    LET picked == SelectSeq([k \in 1..Len(VisPairs) |-> k], LAMBDA k : k \in chosen)
    IN [i \in 1..Len(picked) |->
           [source |-> VisPairs[picked[i]][1], target |-> VisPairs[picked[i]][2],
            isBypass |-> FALSE]]

VisInputs ==
    {[nodes |-> VisNodeList(merges, collapsed), edges |-> VisEdgeList(chosen)] :
        merges \in AtMostOne(VisIds), collapsed \in AtMostOne(VisIds),
        chosen \in {c \in SUBSET (1..Len(VisPairs)) : Cardinality(c) <= MaxVisEdges}}

VisInit ==
    /\ vin \in VisInputs
    /\ hiddenIds = {} /\ visibleNodes = << >> /\ visibleEdges = << >>
    /\ visPc = "entry"
    /\ CoreIdle /\ LayIdle /\ PortIdle /\ MhIdle /\ GraphIdle

\* lines 577-589
VisFullGroups ==
    /\ visPc = "entry"
    /\ hiddenIds' = FullGroupHidden(vin.nodes, vin.edges)
    /\ visPc' = "groups"
    /\ UNCHANGED <<vin, visibleNodes, visibleEdges, coreVars, layVars, portVars, mhVars, graphVars>>

\* lines 591-607
VisBranchPaths ==
    /\ visPc = "groups"
    /\ hiddenIds' = BranchPathLoop(vin.nodes, vin.edges, 1, hiddenIds)
    /\ visPc' = "paths"
    /\ UNCHANGED <<vin, visibleNodes, visibleEdges, coreVars, layVars, portVars, mhVars, graphVars>>

\* lines 609-649
VisBuild ==
    /\ visPc = "paths"
    /\ visibleNodes' = VisibleNodesOf(vin.nodes, hiddenIds)
    /\ visibleEdges' = VisibleEdgesOf(vin.nodes, vin.edges, hiddenIds)
    /\ visPc' = "done"
    /\ UNCHANGED <<vin, hiddenIds, coreVars, layVars, portVars, mhVars, graphVars>>

VisNext == VisFullGroups \/ VisBranchPaths \/ VisBuild

VisibleSpec == VisInit /\ [][VisNext]_vars

VisDone == visPc = "done"

(* Properties of getVisibleGraph *)

CollapsedIds == {vin.nodes[i].id : i \in {k \in 1..Len(vin.nodes) : vin.nodes[k].collapsed}}
MergeIds == {vin.nodes[i].id : i \in {k \in 1..Len(vin.nodes) : vin.nodes[k].isMerge}}
VisibleIds == {visibleNodes[i].id : i \in 1..Len(visibleNodes)}
Successors(n) == ChildSet(vin.edges, n)
Reaches(a, b) == b \in reachSet(vin.edges, a)

\* the merge nodes of branch node b: reachable from every direct child
GroupMerges(b) ==
    {m \in MergeIds : \A c \in Successors(b) : Reaches(c, m)}

\* b is a branch node with a merge node: the head of a branch group
IsGroupHead(b) == Cardinality(Successors(b)) >= 2 /\ GroupMerges(b) # {}

\* the nodes strictly between b and m
StrictlyBetween(b, m) ==
    {n \in VisIds \ {b, m} : (\E c \in Successors(b) : Reaches(c, n)) /\ Reaches(n, m)}

BypassCount(b, e) ==
    Cardinality({i \in 1..Len(visibleEdges) :
                    visibleEdges[i] = BypassEdge(b, e)})

\* C12: a collapsed branch node B with at least two direct children and a
\* merge node M reachable from all of them stays visible, whether or not B
\* is itself a child of another branch node; every node strictly between B
\* and M is hidden and so is M; and visibleEdges holds exactly one bypass
\* edge B->E for each visible successor E of M.
C12_FullGroupCollapse ==
    VisDone =>
        \A b \in CollapsedIds : IsGroupHead(b) =>
            \A m \in GroupMerges(b) :
                /\ b \in VisibleIds
                /\ StrictlyBetween(b, m) \cap VisibleIds = {}
                /\ m \notin VisibleIds
                /\ \A e \in Successors(m) \cap VisibleIds : BypassCount(b, e) = 1

\* the nodes on the paths from c down to m, m excluded
OnPathsTo(c, m) == {n \in VisIds \ {m} : Reaches(c, n) /\ Reaches(n, m)}

\* the nodes of the branches of b that start at a child other than c and
\* that the branch of c does not run through
OtherBranchNodes(b, c, m) ==
    {n \in VisIds \ {m} :
        /\ \E d \in Successors(b) \ {c} : Reaches(d, n)
        /\ Reaches(n, m)
        /\ ~Reaches(c, n)}

\* C13: when a direct child C of a non-collapsed branch node B (merge node M
\* reachable from all of B's children) is collapsed, C and every node on the
\* paths from C down to M, M excluded, are hidden, while M and the nodes of
\* B's other branches stay visible.
C13_PerBranchCollapse ==
    VisDone =>
        \A c \in CollapsedIds : \A b \in VisIds \ CollapsedIds :
            (c \in Successors(b) /\ IsGroupHead(b)) =>
                \A m \in GroupMerges(b) \ {c} :
                    /\ OnPathsTo(c, m) \cap VisibleIds = {}
                    /\ m \in VisibleIds
                    /\ OtherBranchNodes(b, c, m) \subseteq VisibleIds

InVisibleEdges(e) == \E k \in 1..Len(visibleEdges) : visibleEdges[k] = e

\* C14: in the output of getVisibleGraph an input edge is in visibleEdges if
\* and only if both its endpoints are in visibleNodes; a bypass edge leads
\* from a visible branch node to a visible successor of its merge node; no
\* edge of visibleEdges has a hidden endpoint.
C14_EdgesJoinVisibleNodes ==
    VisDone =>
        /\ \A i \in 1..Len(vin.edges) :
              InVisibleEdges(vin.edges[i]) <=>
                  {vin.edges[i].source, vin.edges[i].target} \subseteq VisibleIds
        /\ \A k \in 1..Len(visibleEdges) :
              /\ {visibleEdges[k].source, visibleEdges[k].target} \subseteq VisibleIds
              /\ visibleEdges[k].isBypass =>
                    /\ IsGroupHead(visibleEdges[k].source)
                    /\ \E m \in GroupMerges(visibleEdges[k].source) :
                          visibleEdges[k].target \in Successors(m)

\* a collapse has hidden a merge node with two successors, one hidden and
\* one visible, and a bypass edge to the visible one has been synthesised
C14_BypassPastHiddenSuccessor ==
    /\ VisDone
    /\ \E m \in MergeIds \cap hiddenIds :
          /\ Successors(m) \cap hiddenIds # {}
          /\ \E k \in 1..Len(visibleEdges) :
                /\ visibleEdges[k].isBypass
                /\ visibleEdges[k].target \in Successors(m)
    /\ \E i \in 1..Len(vin.edges) : ~InVisibleEdges(vin.edges[i])

\* C15: when no node carries collapsed=true, getVisibleGraph returns the
\* input nodes as visibleNodes and the input edges as visibleEdges: the same
\* elements in the same order, and no bypass edge.
C15_NothingCollapsedNothingHidden ==
    (VisDone /\ CollapsedIds = {}) =>
        visibleNodes = vin.nodes /\ visibleEdges = vin.edges

\* a graph with a branch group (branch node, merge node, a node between
\* them) and no collapsed node has been filtered
C15_ExpandedBranchGroup ==
    /\ VisDone /\ CollapsedIds = {}
    /\ \E b \in VisIds :
          /\ IsGroupHead(b)
          /\ \E m \in GroupMerges(b) : StrictlyBetween(b, m) # {}

----------------------------------------------------------------------------
(* EdgeRoutingProvider (src/lib/EdgeRoutingProvider.jsx): the source and    *)
(* target port of one edge.  In this part a JavaScript number v is the      *)
(* integer PortUnit * v, so that halves of widths and the fractions         *)
(* (idx + 1) / (total + 1) of the fallback are exact.  A node is [x, y,     *)
(* width, height, outputs, inputs, isMerge, handleBounds]; handleBounds is  *)
(* [measured, handles]: whether the node has been measured, and the         *)
(* measured handles of the side asked for, each [id, cx, cy, position] with *)
(* (cx, cy) its centre relative to the node.                                *)

PortUnit == 120
NoBounds == [measured |-> FALSE, handles |-> {}]
Measured(handles) == [measured |-> TRUE, handles |-> handles]

\* NodeShell.jsx lines 88 and 106: (i - (count - 1) / 2) * 8
NodeShellOffset(i, count) == ((2 * i - (count - 1)) * 8 * PortUnit) \div 2

\* line 59: parseInt((handleId || "").split("-")[1], 10) || 0
fallbackIdx(handleId) == IF handleId = NoHandle THEN 0 ELSE handleId

\* lines 51-52
POSITION_TO_DIR(position, handleType) ==
    IF position \in {"top", "bottom", "left", "right"} THEN position
    ELSE IF handleType = "source" THEN "bottom" ELSE "top"

\* lines 58-75
HandleFallback(node, handleId, handleType) ==
    LET idx == fallbackIdx(handleId)
        declared == IF handleType = "source" THEN node.outputs ELSE node.inputs
        total == IF declared = 0 THEN 1 ELSE declared
    IN [x |-> node.x + ((idx + 1) * node.width) \div (total + 1),
        y |-> IF handleType = "source" THEN node.y + node.height ELSE node.y,
        dir |-> IF handleType = "source" THEN "bottom" ELSE "top"]

\* lines 34-76
getHandleInfo(node, handleId, handleType) ==
    LET found == IF ~node.handleBounds.measured THEN {}
                 ELSE {h \in node.handleBounds.handles : h.id = handleId}
    IN IF found # {}
       THEN LET handle == CHOOSE h \in found : TRUE
            IN [x |-> node.x + handle.cx, y |-> node.y + handle.cy,
                dir |-> POSITION_TO_DIR(handle.position, handleType)]
       ELSE HandleFallback(node, handleId, handleType)

\* the entry with the top reserved for a source strictly inside the threshold
getMergeTargetInfoOpenTop(sourceNode, mergeNode) ==
    LET dx == (sourceNode.x + sourceNode.width \div 2)
                 - (mergeNode.x + mergeNode.width \div 2)
        threshold == mergeNode.width \div 2
    IN IF dx <= -threshold
       THEN [x |-> mergeNode.x, y |-> mergeNode.y + mergeNode.height \div 2,
             dir |-> "left"]
       ELSE IF dx >= threshold
       THEN [x |-> mergeNode.x + mergeNode.width,
             y |-> mergeNode.y + mergeNode.height \div 2, dir |-> "right"]
       ELSE [x |-> mergeNode.x + mergeNode.width \div 2, y |-> mergeNode.y,
             dir |-> "top"]

\* lines 85-112
getMergeTargetInfo(sourceNode, mergeNode) ==
    LET srcCenterX == sourceNode.x + sourceNode.width \div 2
        tgtCenterX == mergeNode.x + mergeNode.width \div 2
        tgtCenterY == mergeNode.y + mergeNode.height \div 2
        dx == srcCenterX - tgtCenterX
        threshold == mergeNode.width \div 2
    IN IF dx < -threshold
       THEN [x |-> mergeNode.x, y |-> tgtCenterY, dir |-> "left"]
       ELSE IF dx > threshold
       THEN [x |-> mergeNode.x + mergeNode.width, y |-> tgtCenterY, dir |-> "right"]
       ELSE [x |-> tgtCenterX, y |-> mergeNode.y, dir |-> "top"]

(* The inputs: a source node of width 40 or 41 px whose centre lies far     *)
(* left, far right, on, and half a pixel beyond the thresholds of a 40 x 40 *)
(* target at (500, 500); up to MaxPorts handles on a side.                  *)
MaxPorts == 3
PortSourceXs == {280, 479, 480, 500, 520, 680}
PortWidths == {40, 41}
PortHandleIds == {NoHandle} \cup 0 .. MaxPorts - 1

\* what NodeShell renders and React Flow measures for output i of count
MeasuredOutput(width, height, i, count) ==
    [id |-> i, cx |-> (width * PortUnit) \div 2 + NodeShellOffset(i, count),
     cy |-> height * PortUnit, position |-> "bottom"]

PortSourceNodes ==
    UNION {{[x |-> PortUnit * x, y |-> PortUnit * 400, width |-> PortUnit * w,
             height |-> PortUnit * 40, outputs |-> n, inputs |-> 1,
             isMerge |-> FALSE, handleBounds |-> b] :
              b \in {NoBounds, Measured({}),
                     Measured({MeasuredOutput(w, 40, i, n) : i \in 0 .. n - 1})}} :
           x \in PortSourceXs, w \in PortWidths, n \in 0 .. MaxPorts}

PortTargetNodes ==
    {[x |-> PortUnit * 500, y |-> PortUnit * 500, width |-> PortUnit * 40,
      height |-> PortUnit * 40, outputs |-> 1, inputs |-> n,
      isMerge |-> m, handleBounds |-> NoBounds] :
        n \in 1 .. MaxPorts, m \in BOOLEAN}

PortInit ==
    /\ pin \in [sourceNode : PortSourceNodes, sourceHandle : PortHandleIds,
                targetNode : PortTargetNodes, targetHandle : 0 .. MaxPorts - 1]
    /\ srcInfo = << >> /\ tgtInfo = << >> /\ portPc = "source"
    /\ CoreIdle /\ LayIdle /\ VisIdle /\ MhIdle /\ GraphIdle

\* lines 136-145
ResolveSource ==
    /\ portPc = "source"
    /\ srcInfo' = getHandleInfo(pin.sourceNode, pin.sourceHandle, "source")
    /\ portPc' = "target"
    /\ UNCHANGED <<pin, tgtInfo, coreVars, layVars, visVars, mhVars, graphVars>>

\* lines 146-158
ResolveTarget ==
    /\ portPc = "target"
    /\ tgtInfo' = IF pin.targetNode.isMerge
                  THEN getMergeTargetInfo(pin.sourceNode, pin.targetNode)
                  ELSE getHandleInfo(pin.targetNode, pin.targetHandle, "target")
    /\ portPc' = "done"
    /\ UNCHANGED <<pin, srcInfo, coreVars, layVars, visVars, mhVars, graphVars>>

PortNext == ResolveSource \/ ResolveTarget

PortSpec == PortInit /\ [][PortNext]_vars

PortsDone == portPc = "done"

(* Properties of the port resolution *)

Px1(v) == PortUnit * v

\* twice the source centre's x minus twice the merge centre's x
TwiceDx ==
    (2 * pin.sourceNode.x + pin.sourceNode.width)
        - (2 * pin.targetNode.x + pin.targetNode.width)

LeftMidpoint(n)  == [x |-> n.x, y |-> n.y + n.height \div 2, dir |-> "left"]
RightMidpoint(n) == [x |-> n.x + n.width, y |-> n.y + n.height \div 2, dir |-> "right"]
TopCentre(n)     == [x |-> n.x + n.width \div 2, y |-> n.y, dir |-> "top"]

\* C18: for an edge into a merge node of width W, with dx the source node's
\* centre x minus the merge centre x: dx < -W/2 gives the left-edge midpoint
\* and targetDir left, dx > W/2 the right-edge midpoint and targetDir right,
\* and |dx| <= W/2, both boundaries included, the top centre and targetDir
\* top; for a merge at (500,500) of size 40x40, source centres 300, 700 and
\* 520 give (500,520) left, (540,520) right and (520,500) top.
C18_MergeEntrySide ==
    (PortsDone /\ pin.targetNode.isMerge) =>
        LET M == pin.targetNode
            centre2 == 2 * pin.sourceNode.x + pin.sourceNode.width
        IN /\ TwiceDx < -M.width => tgtInfo = LeftMidpoint(M)
           /\ TwiceDx > M.width => tgtInfo = RightMidpoint(M)
           /\ (-M.width <= TwiceDx /\ TwiceDx <= M.width) => tgtInfo = TopCentre(M)
           /\ centre2 = 2 * Px1(300) =>
                 tgtInfo = [x |-> Px1(500), y |-> Px1(520), dir |-> "left"]
           /\ centre2 = 2 * Px1(700) =>
                 tgtInfo = [x |-> Px1(540), y |-> Px1(520), dir |-> "right"]
           /\ centre2 = 2 * Px1(520) =>
                 tgtInfo = [x |-> Px1(520), y |-> Px1(500), dir |-> "top"]

\* an edge into the merge node whose source centre lies exactly half the
\* merge width to the right of the merge centre has been resolved
C18_SourceOnThreshold ==
    /\ PortsDone /\ pin.targetNode.isMerge
    /\ TwiceDx = pin.targetNode.width
    /\ tgtInfo.dir = "top"

\* the handle id is not among the node's measured handles
NotMeasured(node, handleId) ==
    \/ ~node.handleBounds.measured
    \/ \A h \in node.handleBounds.handles : h.id # handleId

\* x = node.x + width/2 + (i - (N - 1)/2) * 8, doubled
TwicePortFormulaX(node, i, N) ==
    2 * node.x + node.width + (2 * i - (N - 1)) * Px1(8)

\* C19: when a handle id is not found in the node's measured handleBounds,
\* the orchestrator places the i-th of N handles of a side at
\* x = node.x + width/2 + (i - (N-1)/2) * 8, at the node's bottom for a
\* source handle and at its top for a target handle, for every N >= 1 and
\* 0 <= i < N: the position NodeShell gives the handle.
C19_FallbackUsesPortFormula ==
    PortsDone =>
        /\ LET n == pin.sourceNode
               i == pin.sourceHandle
           IN (NotMeasured(n, i) /\ n.outputs >= 1 /\ 0 <= i /\ i < n.outputs) =>
                 /\ 2 * srcInfo.x = TwicePortFormulaX(n, i, n.outputs)
                 /\ srcInfo.x = n.x + n.width \div 2 + NodeShellOffset(i, n.outputs)
                 /\ srcInfo.y = n.y + n.height
        /\ LET n == pin.targetNode
               i == pin.targetHandle
           IN (~n.isMerge /\ NotMeasured(n, i) /\ n.inputs >= 1 /\ i < n.inputs) =>
                 /\ 2 * tgtInfo.x = TwicePortFormulaX(n, i, n.inputs)
                 /\ tgtInfo.x = n.x + n.width \div 2 + NodeShellOffset(i, n.inputs)
                 /\ tgtInfo.y = n.y

----------------------------------------------------------------------------
(* MinHeap on its own: src/lib/orthogonalRouter.js 5-53, driven by pushes  *)
(* and pops as the Dijkstra loop of lines 389-413 drives it.  An entry is  *)
(* {cost, idx}; idx numbers the entries in the order they were pushed.     *)

MaxPushes == 4
HeapCosts == {1, 2}

MhInit ==
    /\ mhData = << >> /\ pushed = 0 /\ popped = << >> /\ pushLog = << >>
    /\ CoreIdle /\ LayIdle /\ VisIdle /\ PortIdle /\ GraphIdle

\* push(item), lines 10-13
MhPush ==
    /\ pushed < MaxPushes
    /\ \E c \in HeapCosts :
          /\ mhData' = HeapPush(mhData, [cost |-> c, idx |-> pushed])
          /\ pushLog' = Append(pushLog, [cost |-> c, idx |-> pushed])
    /\ pushed' = pushed + 1
    /\ UNCHANGED <<popped, coreVars, layVars, visVars, portVars, graphVars>>

\* pop(), lines 15-23, under the guard heap.size > 0 of line 392
MhPop ==
    /\ Len(mhData) > 0
    /\ popped' = Append(popped, HeapTop(mhData))
    /\ mhData' = HeapPopRest(mhData)
    /\ UNCHANGED <<pushed, pushLog, coreVars, layVars, visVars, portVars, graphVars>>

MhNext == MhPush \/ MhPop

HeapSpec == MhInit /\ [][MhNext]_vars

\* C20: after any sequence of pushes, MinHeap.pop returns entries of equal
\* cost in the order they were pushed (first in, first out among ties): an
\* entry is never popped before an entry of the same cost that was pushed
\* earlier.
C20_TiesPopInPushOrder ==
    \A i, j \in 1 .. Len(popped) :
        (i < j /\ popped[i].cost = popped[j].cost) => popped[i].idx < popped[j].idx

\* the entries of a sequence as a set
Entries(data) == {data[k] : k \in 1 .. Len(data)}

\* no entry occurs twice in the sequence
NoRepeat(data) ==
    \A i, j \in 1 .. Len(data) : data[i] = data[j] => i = j

\* C29: after any sequence of push and pop operations on MinHeap (pop only
\* when size > 0), pop returns an entry whose cost is at most the cost of
\* every entry still in the heap; every pushed entry is popped exactly once
\* (an entry pushed is either still in the heap or has been popped, never
\* both and never twice, so draining the heap pops exactly the entries
\* pushed); and size equals the number of pushes minus the number of pops.
C29_HeapContract ==
    /\ [][MhPop => \A k \in 1 .. Len(mhData') :
                      popped'[Len(popped')].cost <= mhData'[k].cost]_vars
    /\ [](/\ Entries(mhData) \cup Entries(popped) = Entries(pushLog)
          /\ Entries(mhData) \cap Entries(popped) = {}
          /\ NoRepeat(mhData) /\ NoRepeat(popped)
          /\ Len(mhData) = pushed - Len(popped)
          /\ pushed = Len(pushLog))

\* a heap filled with costs 2, 1, 2, 1 in that order, partly popped in
\* between, has been drained
C29_DrainedAfterMixedPushes ==
    /\ pushed = MaxPushes /\ Len(mhData) = 0
    /\ Len(pushLog) >= 4
    /\ pushLog[1].cost = 2 /\ pushLog[2].cost = 1
    /\ pushLog[3].cost = 2 /\ pushLog[4].cost = 1
    /\ popped[1] = pushLog[2]
    /\ Len(popped) = Len(pushLog)

----------------------------------------------------------------------------
(* Further properties of separateOverlappingEdges *)

\* the cross product of a->b and b->c: 0 when the three points are in line
Turn(a, b, c) == Cross(b.x - a.x, b.y - a.y, c.x - b.x, c.y - b.y)

\* p lies on the segment from a to b
LiesOn(p, a, b) ==
    /\ Cross(b.x - a.x, b.y - a.y, p.x - a.x, p.y - a.y) = 0
    /\ Min(a.x, b.x) <= p.x /\ p.x <= Max(a.x, b.x)
    /\ Min(a.y, b.y) <= p.y /\ p.y <= Max(a.y, b.y)

\* the stub between port and junction is the same in the output: a junction
\* that is a corner of the input is the output's vertex next to the port, and
\* a junction on a straight run, which simplifyPath may drop, still lies on
\* the output's segment at the port
StubKept(port, junction, after, outPort, outNext) ==
    /\ outPort = port
    /\ IF Turn(port, junction, after) # 0
       THEN outNext = junction
       ELSE LiesOn(junction, outPort, outNext)

\* C27: separateOverlappingEdges never nudges stubs: for every input
\* polyline of N >= 4 points the source stub end (input index 1) and the
\* target stub start (input index N-2) keep their input coordinates in the
\* output, so the source and target stub segments are unchanged.
C27_StubsNeverNudged ==
    SepDone =>
        \A e \in 1 .. Len(edgePaths) :
            Len(edgePaths[e]) >= 4 =>
                LET i == edgePaths[e]
                    o == sepOut[e]
                    n == Len(i)
                    m == Len(o)
                IN /\ m >= 2
                   /\ StubKept(i[1], i[2], i[3], o[1], o[2])
                   /\ StubKept(i[n], i[n - 1], i[n - 2], o[m], o[m - 1])

----------------------------------------------------------------------------
(* separateOverlappingEdges on batches of three edges with vertical stubs *)

SpreadSeparations == {4, 8}

SpreadPolylines ==
    { pl \in SepPolylines :
        pl[1].x = pl[2].x /\ pl[Len(pl)].x = pl[Len(pl) - 1].x }

SpreadInit ==
    /\ edgePaths \in { << a, b, c >> : a \in SpreadPolylines, b \in SpreadPolylines,
                                       c \in SpreadPolylines }
    /\ separation \in SpreadSeparations
    /\ sepRadius = 0
    /\ sepOut = << >> /\ sepPaths = << >>
    /\ sepPc = "call"
    /\ RouteIdle /\ SimpIdle /\ RankIdle /\ AuxIdle

SpreadSpec == SpreadInit /\ [][SepNext]_vars

\* the routable segments of the batch, as a set
BatchSegments ==
    LET all == allSegments(edgePaths, 1)
    IN { all[k] : k \in 1 .. Len(all) }

SameLine(A, B) == A.orientation = B.orientation /\ A.fixedCoord = B.fixedCoord

\* the segments joined to those of S by a chain of overlapping or touching
\* ranges on the same line
RECURSIVE ChainedTo(_)
ChainedTo(S) ==
    LET more == { B \in BatchSegments :
                    \E A \in S : SameLine(A, B) /\ RangesTouch(A, B) }
    IN IF more \subseteq S THEN S ELSE ChainedTo(S \cup more)

ClusterAround(A) == ChainedTo({A})

ClusterEdges(cl) == { B.edgeIdx : B \in cl }

\* where the sweep by range start first meets edge e in the cluster
FirstStart(cl, e) ==
    CHOOSE lo \in { B.lo : B \in { C \in cl : C.edgeIdx = e } } :
        \A B \in cl : B.edgeIdx = e => lo <= B.lo

\* the 0-based rank of edge e: the edges met earlier in the sweep, equal
\* starts in input order
SweepRank(cl, e) ==
    Cardinality({ f \in ClusterEdges(cl) :
                    \/ FirstStart(cl, f) < FirstStart(cl, e)
                    \/ (FirstStart(cl, f) = FirstStart(cl, e) /\ f < e) })

AssignedOffsets(A) ==
    { r.off : r \in { q \in Offsets(edgePaths, separation) :
                        q.e = A.edgeIdx /\ q.s = A.segIdx } }

\* C28: within each cluster of overlapping collinear segments that holds
\* N >= 2 distinct edges, the edge of 0-based rank i (first appearance in
\* the sweep by range start) gets the offset (i - (N-1)/2) * separation for
\* all its segments in the cluster, so the offsets are symmetric about 0
\* and consecutive ranks differ by the separation (3 edges: -sep, 0, +sep);
\* a cluster with fewer than two distinct edges assigns no offset.
C28_CentreSpreadOffsets ==
    (SepDone /\ separation > 0 /\ Len(edgePaths) >= 2) =>
        \A A \in BatchSegments :
            LET cl == ClusterAround(A)
                N == Cardinality(ClusterEdges(cl))
                i == SweepRank(cl, A.edgeIdx)
            IN IF N < 2 THEN AssignedOffsets(A) = {}
               ELSE /\ \E off \in AssignedOffsets(A) :
                          /\ AssignedOffsets(A) = {off}
                          /\ 2 * off = (2 * i - (N - 1)) * separation
                          /\ N = 3 => off = (i - 1) * separation
                    /\ \A B \in cl :
                          SweepRank(cl, B.edgeIdx) = i + 1 =>
                              AssignedOffsets(B) =
                                  { off + separation : off \in AssignedOffsets(A) }
                    /\ \A B \in cl :
                          SweepRank(cl, B.edgeIdx) = N - 1 - i =>
                              AssignedOffsets(B) = { -off : off \in AssignedOffsets(A) }

\* a cluster of three distinct edges whose sweep meets the third edge of
\* the batch before the first, next to a segment that shares its line with
\* no other edge
C28_ThreeEdgesOutOfInputOrder ==
    /\ SepDone /\ separation > 0
    /\ \E A \in BatchSegments :
          LET cl == ClusterAround(A)
          IN /\ Cardinality(ClusterEdges(cl)) = 3
             /\ SweepRank(cl, 3) < SweepRank(cl, 1)
             /\ AssignedOffsets(A) = {separation}
    /\ \E A \in BatchSegments :
          Cardinality(ClusterEdges(ClusterAround(A))) = 1

----------------------------------------------------------------------------
(* The search of computeOrthogonalPath under several bend penalties, with  *)
(* the earlyBendBias that EdgeRoutingProvider.jsx line 181 puts into the   *)
(* configuration of a labelled edge.                                       *)

CostPenalties == {0, Px, 4 * Px}
CostBiases == {0, 1}

CostConfigs ==
    [ sourceDir : {"bottom", "left"}, targetDir : {"top", "left"},
      sourceStubLength : {2}, targetStubLength : {2},
      padding : {2}, bendPenalty : CostPenalties, earlyBendBias : CostBiases ]

CostInputs ==
    [ sx : {6, 10}, sy : {0}, tx : TargetXs, ty : {10},
      nodes : Scenes, cfg : CostConfigs ]

CostInit ==
    /\ rin \in CostInputs
    /\ rpc = "entry" /\ waypoints = << >>
    /\ heap = << >> /\ dist = << >> /\ prev = << >>
    /\ prevDir = << >> /\ visited = << >> /\ rout = << >>
    /\ SimpIdle /\ SepIdle /\ RankIdle /\ AuxIdle

CostNext ==
    \/ RouteSearchInit
    \/ DijkstraSkip
    \/ DijkstraReachTarget
    \/ DijkstraExpand
    \/ RouteUnreachable
    \/ RouteReconstruct

CostSpec == CostInit /\ [][CostNext]_vars

\* the axis of the segment from a to b, as adjacency edges name it
SegDir(a, b) == IF a.x = b.x THEN "v" ELSE "h"

OtherAxis(d) == IF d = "h" THEN "v" ELSE "h"

\* the cost of the walk pts[k], pts[k+1], ... entered along axis d ("null":
\* no axis yet): segment lengths plus pen for every change of axis
RECURSIVE RouteCostFrom(_, _, _, _)
RouteCostFrom(pts, k, d, pen) ==
    IF k >= Len(pts) THEN 0
    ELSE LET sd == SegDir(pts[k], pts[k + 1])
         IN Abs(pts[k].x - pts[k + 1].x) + Abs(pts[k].y - pts[k + 1].y)
            + (IF d # "null" /\ d # sd THEN pen ELSE 0)
            + RouteCostFrom(pts, k + 1, sd, pen)

\* the waypoints of lines 421-427, from the source stub end to the target
\* stub start
ReturnedRoute ==
    LET idxs == pathIndices(prev, endIdx(rin))
    IN [k \in 1 .. Len(idxs) |-> waypoints[idxs[k]]]

\* every adjacency edge of the visibility graph
RECURSIVE ArcSeq(_, _, _)
ArcSeq(in, wps, i) ==
    IF i > Len(wps) THEN << >>
    ELSE [k \in 1 .. Len(adj(in, wps, i)) |->
            [from |-> i, to |-> adj(in, wps, i)[k].neighbor,
             dist |-> adj(in, wps, i)[k].dist, dir |-> adj(in, wps, i)[k].dir]]
         \o ArcSeq(in, wps, i + 1)

\* a cost no route of the bounded scenes reaches
NoRoute == 100000

\* one round of relaxation over every edge; best[j][d] is the least cost
\* found so far of a route from the start that arrives at j along axis d
RECURSIVE BellmanPass(_, _, _, _)
BellmanPass(arcs, k, best, pen) ==
    IF k > Len(arcs) THEN best
    ELSE LET a == arcs[k]
             c == Min(best[a.from][a.dir] + a.dist,
                      best[a.from][OtherAxis(a.dir)] + a.dist + pen)
         IN IF c < best[a.to][a.dir]
            THEN BellmanPass(arcs, k + 1, [best EXCEPT ![a.to][a.dir] = c], pen)
            ELSE BellmanPass(arcs, k + 1, best, pen)

RECURSIVE SettleCosts(_, _, _, _)
SettleAgain(arcs, nxt, old, pen, k) ==
    IF nxt = old \/ k = 0 THEN nxt ELSE SettleCosts(arcs, nxt, pen, k - 1)

SettleCosts(arcs, best, pen, k) ==
    SettleAgain(arcs, BellmanPass(arcs, 1, best, pen), best, pen, k)

\* the least cost of any route of the visibility graph from the source stub
\* end to the target stub start
MinRouteCost(in, wps, pen) ==
    LET s == startIdx(in)
        init == [j \in 1 .. Len(wps) |->
                    [h |-> IF j = s THEN 0 ELSE NoRoute,
                     v |-> IF j = s THEN 0 ELSE NoRoute]]
        best == SettleCosts(ArcSeq(in, wps, 1), init, pen, 2 * Len(wps))
    IN Min(best[endIdx(in)].h, best[endIdx(in)].v)

\* C24: when a route exists in the visibility graph, the route returned
\* between the source stub end and the target stub start has the least
\* total cost of all routes in that graph, cost being the sum of the segment
\* lengths plus bendPenalty for each direction change, for every
\* bendPenalty >= 0.
C24_RouteHasLeastCost ==
    ViaDijkstra =>
        RouteCostFrom(ReturnedRoute, 1, "null", rin.cfg.bendPenalty)
            <= MinRouteCost(rin, waypoints, rin.cfg.bendPenalty)

StubAxis(dir) == IF IsVertical(dir) THEN "v" ELSE "h"

\* C25: the source stub counts as the initial axis: the first segment
\* leaving the source stub end is charged bendPenalty whenever its axis
\* differs from the stub's axis, like any later direction change.
C25_StubIsInitialAxis ==
    rpc \in {"search", "exit", "done"} =>
        \A j \in 1 .. Len(waypoints) :
            (Len(waypoints) = Len(prev) /\ prev[j] = startIdx(rin)) =>
                dist[j] = Abs(waypoints[j].x - sourceStubEnd(rin).x)
                          + Abs(waypoints[j].y - sourceStubEnd(rin).y)
                          + (IF prevDir[j] # StubAxis(rin.cfg.sourceDir)
                             THEN rin.cfg.bendPenalty ELSE 0)

\* C26: with earlyBendBias > 0 the cost of each horizontal segment at
\* height y is increased by earlyBendBias * (y - sourcePort.y); with
\* earlyBendBias = 0 the term is absent.
C26_EarlyBendBiasCharged ==
    rpc \in {"search", "exit", "done"} =>
        \A j \in 1 .. Len(waypoints) :
            (Len(waypoints) = Len(prev) /\ prev[j] # 0 /\ prevDir[j] = "h") =>
                dist[j] = dist[prev[j]]
                          + Abs(waypoints[j].x - waypoints[prev[j]].x)
                          + (IF prevDir[prev[j]] = "v" THEN rin.cfg.bendPenalty ELSE 0)
                          + rin.cfg.earlyBendBias * (waypoints[j].y - rin.sy)

----------------------------------------------------------------------------
(* Graph actions: src/lib/graphUtils.js and src/lib/graphActions.js.
   A node is its id, an edge is a record
   [id, source, target, sourceHandle, targetHandle]; the handle "output-i"
   (or "input-i") is the integer i and NoHandle is an unset handle.        *)

\* the handler calls of one session
MaxCalls == 2

GEdge(id, s, t, sh, th) ==
    [id |-> id, source |-> s, target |-> t, sourceHandle |-> sh, targetHandle |-> th]

\* parseInt(h.replace("output-", ""), 10) || 0, h defaulting to "output-0"
HandleIdx(h) == IF h = NoHandle THEN 0 ELSE h

SeqIdx(seq) == 1 .. Len(seq)

MaxOf(S) == IF S = {} THEN 0 ELSE CHOOSE a \in S : \A b \in S : b <= a

RECURSIVE KeepEdges(_, _)
\* edges.filter(keep)
KeepEdges(edges, keep) ==
    IF edges = << >> THEN << >>
    ELSE IF keep[1] THEN << edges[1] >> \o KeepEdges(Tail(edges), Tail(keep))
         ELSE KeepEdges(Tail(edges), Tail(keep))

WithoutId(edges, edgeId) ==
    KeepEdges(edges, [k \in SeqIdx(edges) |-> edges[k].id # edgeId])

HasNode(nodes, id) == \E k \in SeqIdx(nodes) : nodes[k] = id
HasEdge(edges, id) == \E k \in SeqIdx(edges) : edges[k].id = id

\* edges.find((e) => e.id === edgeId)
FindEdge(edges, id) ==
    edges[CHOOSE k \in SeqIdx(edges) :
            edges[k].id = id /\ \A j \in 1 .. k - 1 : edges[j].id # id]

\* the outCounts of lines 64-78: per source, the highest set output index plus one
OutCount(existingEdges, n) ==
    MaxOf({ HandleIdx(existingEdges[k].sourceHandle) + 1 :
              k \in { j \in SeqIdx(existingEdges) :
                        existingEdges[j].source = n
                        /\ existingEdges[j].sourceHandle # NoHandle } })

InCount(existingEdges, n) ==
    MaxOf({ HandleIdx(existingEdges[k].targetHandle) + 1 :
              k \in { j \in SeqIdx(existingEdges) :
                        existingEdges[j].target = n
                        /\ existingEdges[j].targetHandle # NoHandle } })

\* nextOutputIdx, lines 6-13: an unset handle counts as index 0
nextOutputIdx(edges, n) ==
    MaxOf({ HandleIdx(edges[k].sourceHandle) + 1 :
              k \in { j \in SeqIdx(edges) : edges[j].source = n } })

nextInputIdx(edges, n) ==
    MaxOf({ HandleIdx(edges[k].targetHandle) + 1 :
              k \in { j \in SeqIdx(edges) : edges[j].target = n } })

\* injectHandleCounts, lines 29-46: the number of handles a node renders
injectHandleCounts(edges, n) ==
    [outputs |-> nextOutputIdx(edges, n), inputs |-> nextInputIdx(edges, n)]

\* the new edges before position i that took a fresh output of node n
TakenOut(newEdges, i, n) ==
    Cardinality({ j \in 1 .. i - 1 :
                    newEdges[j].source = n /\ newEdges[j].sourceHandle = NoHandle })

TakenIn(newEdges, i, n) ==
    Cardinality({ j \in 1 .. i - 1 :
                    newEdges[j].target = n /\ newEdges[j].targetHandle = NoHandle })

\* assignHandles, lines 63-94
assignHandles(newEdges, existingEdges) ==
    [i \in SeqIdx(newEdges) |->
        LET edge == newEdges[i]
        IN [edge EXCEPT
              !.sourceHandle =
                 IF edge.sourceHandle = NoHandle
                 THEN OutCount(existingEdges, edge.source)
                      + TakenOut(newEdges, i, edge.source)
                 ELSE edge.sourceHandle,
              !.targetHandle =
                 IF edge.targetHandle = NoHandle
                 THEN InCount(existingEdges, edge.target)
                      + TakenIn(newEdges, i, edge.target)
                 ELSE edge.targetHandle]]

\* the place of edges[k] among the edges of `members` after the stable sort
\* by index of lines 105-109 (idx[j] is the old index of edges[j])
SortPlace(members, idx, k) ==
    Cardinality({ j \in members : idx[j] < idx[k] \/ (idx[j] = idx[k] /\ j < k) })

\* a remap that closes no gap: every kept edge keeps the index it had
RemapKeep(edges, members, idx, id) ==
    MaxOf({ idx[k] : k \in { j \in members : edges[j].id = id } })

\* srcRemap.get(id), lines 110-113: a later set for the same id wins
RemapOf(edges, members, idx, id) ==
    MaxOf({ SortPlace(members, idx, k) : k \in { j \in members : edges[j].id = id } })

\* reindexHandlesAfterDelete, lines 99-134
reindexHandlesAfterDelete(remainingEdges, deletedEdge) ==
    LET srcEdges == { k \in SeqIdx(remainingEdges) :
                        remainingEdges[k].source = deletedEdge.source }
        tgtEdges == { k \in SeqIdx(remainingEdges) :
                        remainingEdges[k].target = deletedEdge.target }
        srcIdx   == [k \in SeqIdx(remainingEdges) |->
                        HandleIdx(remainingEdges[k].sourceHandle)]
        tgtIdx   == [k \in SeqIdx(remainingEdges) |->
                        HandleIdx(remainingEdges[k].targetHandle)]
    IN [k \in SeqIdx(remainingEdges) |->
          LET e == remainingEdges[k]
          IN [e EXCEPT
                !.sourceHandle =
                   IF k \in srcEdges
                   THEN RemapOf(remainingEdges, srcEdges, srcIdx, e.id)
                   ELSE e.sourceHandle,
                !.targetHandle =
                   IF k \in tgtEdges
                   THEN RemapOf(remainingEdges, tgtEdges, tgtIdx, e.id)
                   ELSE e.targetHandle]]

\* a result of a graph action; null is the record with isNull set
NullResult == [isNull |-> TRUE, nodes |-> << >>, edges |-> << >>]
Result(nodes, edges) == [isNull |-> FALSE, nodes |-> nodes, edges |-> edges]

\* what a host factory can do: it is missing, it returns null, or it returns
\* new nodes and raw edges
NoFactory   == [kind |-> "missing", nodes |-> << >>, edges |-> << >>]
FactoryNull == [kind |-> "null", nodes |-> << >>, edges |-> << >>]
FactoryGives(nodes, edges) == [kind |-> "result", nodes |-> nodes, edges |-> edges]

\* deleteEdge, graphActions.js 194-201
deleteEdge(nodes, edges, edgeId) ==
    IF ~HasEdge(edges, edgeId) THEN NullResult
    ELSE Result(nodes,
                reindexHandlesAfterDelete(WithoutId(edges, edgeId),
                                          FindEdge(edges, edgeId)))

\* connectNodes without a look at the factory's answer
connectNodesAlways(nodes, edges, onConnectNodes) ==
    Result(nodes, edges \o assignHandles(onConnectNodes.edges, edges))

\* connectNodes, graphActions.js 178-188
connectNodes(nodes, edges, onConnectNodes) ==
    IF onConnectNodes.kind # "result" THEN NullResult
    ELSE Result(nodes, edges \o assignHandles(onConnectNodes.edges, edges))

\* addNode, graphActions.js 35-139, positions left out
addNode(nodes, edges, parentId, createNode) ==
    IF ~HasNode(nodes, parentId) THEN NullResult
    ELSE IF createNode.kind # "result" THEN NullResult
    ELSE Result(nodes \o createNode.nodes,
                edges \o assignHandles(createNode.edges, edges))

\* addNodeInline, graphActions.js 146-171, positions left out
addNodeInline(nodes, edges, edgeId, createNodeInline) ==
    IF ~HasEdge(edges, edgeId) THEN NullResult
    ELSE IF createNodeInline.kind # "result" THEN NullResult
    ELSE LET updatedEdges == WithoutId(edges, edgeId)
         IN Result(nodes \o createNodeInline.nodes,
                   updatedEdges
                     \o assignHandles(createNodeInline.edges, updatedEdges))


----------------------------------------------------------------------------
(* The OrthogonalFlow handlers of the graph actions (OrthogonalFlow.jsx
   371-400).  A handler reads nodesRef and edgesRef, runs the action and
   calls fireChange when the result is not null; fireChange calls onChange
   when the host passed one, and the host that is handed the new nodes and
   edges passes them back as props.                                        *)

NoStart == 0         \* connectStartRef.current is null
MissingId == 0       \* an id no node and no edge carries

\* gCall: the handler, its id arguments, what the factory did ("none" for a
\* handler without one), whether the result was null, whether onChange ran,
\* the number of handler calls so far, and whether the host passed onChange
NoCall(onChange) ==
    [op |-> "none", a |-> MissingId, b |-> MissingId, factory |-> "none",
     isNull |-> TRUE, fired |-> FALSE, n |-> 0, onChange |-> onChange]

NodeIdsOf(nodes) == { nodes[k] : k \in SeqIdx(nodes) }
EdgeIdsOf(edges) == { edges[k].id : k \in SeqIdx(edges) }

\* ids the host's factories give to what they create
FreshNode(nodes) == MaxOf(NodeIdsOf(nodes)) + 1
FreshEdge(edges) == MaxOf(EdgeIdsOf(edges)) + 1

RawEdge(id, s, t) == GEdge(id, s, t, NoHandle, NoHandle)

\* the handler's tail: if (result) fireChange(result.nodes, result.edges)
Fire(op, a, b, factory, result) ==
    LET fired == ~result.isNull /\ gCall.onChange
    IN /\ gCall.n < MaxCalls
       /\ gCall' = [op |-> op, a |-> a, b |-> b, factory |-> factory,
                    isNull |-> result.isNull, fired |-> fired, n |-> gCall.n + 1,
                    onChange |-> gCall.onChange]
       /\ IF fired
          THEN gNodes' = result.nodes /\ gEdges' = result.edges
          ELSE UNCHANGED <<gNodes, gEdges>>
       /\ UNCHANGED <<gStart, coreVars, layVars, visVars, portVars, mhVars>>

\* onCreateNode(parentId, type): one new node under the parent, with or
\* without an edge on to an existing node
CreateNodeOutcomes(nodes, edges, parentId) ==
    LET n == FreshNode(nodes)
        e == FreshEdge(edges)
    IN { NoFactory, FactoryNull,
         FactoryGives(<< n >>, << RawEdge(e, parentId, n) >>) }
       \cup { FactoryGives(<< n >>, << RawEdge(e, parentId, n), RawEdge(e + 1, n, m) >>) :
                m \in NodeIdsOf(nodes) \ {parentId} }

\* onCreateNodeInline(edgeId, sourceId, targetId, type): one new node
\* between the ends of the edge
CreateInlineOutcomes(nodes, edges, edgeId) ==
    { NoFactory, FactoryNull }
    \cup IF HasEdge(edges, edgeId)
         THEN LET edge == FindEdge(edges, edgeId)
                  n == FreshNode(nodes)
                  e == FreshEdge(edges)
              IN { FactoryGives(<< n >>, << RawEdge(e, edge.source, n),
                                            RawEdge(e + 1, n, edge.target) >>) }
         ELSE {}

\* onConnectNodes(sourceId, targetId): one edge between the two
ConnectOutcomes(edges, sourceId, targetId) ==
    { NoFactory, FactoryNull,
      FactoryGives(<< >>, << RawEdge(FreshEdge(edges), sourceId, targetId) >>) }

\* handleAddNode, lines 382-385
HandleAddNode ==
    \E parentId \in NodeIdsOf(gNodes) \cup {MissingId} :
    \E createNode \in CreateNodeOutcomes(gNodes, gEdges, parentId) :
        Fire("addNode", parentId, MissingId, createNode.kind,
             addNode(gNodes, gEdges, parentId, createNode))

\* handleAddNodeInline, lines 387-390
HandleAddNodeInline ==
    \E edgeId \in EdgeIdsOf(gEdges) \cup {MissingId} :
    \E createNodeInline \in CreateInlineOutcomes(gNodes, gEdges, edgeId) :
        Fire("addNodeInline", edgeId, MissingId, createNodeInline.kind,
             addNodeInline(gNodes, gEdges, edgeId, createNodeInline))

\* handleConnectToExisting, lines 392-395
HandleConnectToExisting ==
    \E sourceNodeId \in NodeIdsOf(gNodes), targetNodeId \in NodeIdsOf(gNodes) :
    \E onConnectNodes \in ConnectOutcomes(gEdges, sourceNodeId, targetNodeId) :
        /\ sourceNodeId # targetNodeId
        /\ Fire("connectNodes", sourceNodeId, targetNodeId, onConnectNodes.kind,
                connectNodes(gNodes, gEdges, onConnectNodes))

\* handleDeleteEdge, lines 397-400
HandleDeleteEdge ==
    \E edgeId \in EdgeIdsOf(gEdges) \cup {MissingId} :
        Fire("deleteEdge", edgeId, MissingId, "none",
             deleteEdge(gNodes, gEdges, edgeId))

\* every node's outgoing handles are output-0 .. output-(k-1) and its
\* incoming handles input-0 .. input-(m-1), each once
Contiguous(edges) ==
    /\ \A k \in SeqIdx(edges) :
          edges[k].sourceHandle # NoHandle /\ edges[k].targetHandle # NoHandle
    /\ \A k \in SeqIdx(edges) :
          LET outs == { j \in SeqIdx(edges) : edges[j].source = edges[k].source }
              ins  == { j \in SeqIdx(edges) : edges[j].target = edges[k].target }
          IN /\ { edges[j].sourceHandle : j \in outs } = 0 .. Cardinality(outs) - 1
             /\ { edges[j].targetHandle : j \in ins } = 0 .. Cardinality(ins) - 1

\* the graphs a session starts from: three nodes, no edge, a chain or a branch
StartEdgeLists ==
    { << >>,
      << GEdge(1, 1, 2, 0, 0) >>,
      << GEdge(1, 1, 2, 0, 0), GEdge(2, 1, 3, 1, 0) >>,
      << GEdge(1, 1, 3, 0, 0), GEdge(2, 2, 3, 0, 1) >> }

ActionInit ==
    /\ gNodes = << 1, 2, 3 >>
    /\ gEdges \in StartEdgeLists
    /\ gCall \in { NoCall(onChange) : onChange \in BOOLEAN } /\ gStart = NoStart
    /\ CoreIdle /\ LayIdle /\ VisIdle /\ PortIdle /\ MhIdle

ActionNext ==
    \/ HandleAddNode
    \/ HandleAddNodeInline
    \/ HandleConnectToExisting
    \/ HandleDeleteEdge

ActionSpec == ActionInit /\ [][ActionNext]_vars


\* the handles a node renders are the handles its edges use
HandlesMatch(nodes, edges) ==
    \A k \in SeqIdx(nodes) :
       LET n == nodes[k]
           outs == { j \in SeqIdx(edges) : edges[j].source = n }
           ins  == { j \in SeqIdx(edges) : edges[j].target = n }
       IN /\ { HandleIdx(edges[j].sourceHandle) : j \in outs }
               = 0 .. injectHandleCounts(edges, n).outputs - 1
          /\ { HandleIdx(edges[j].targetHandle) : j \in ins }
               = 0 .. injectHandleCounts(edges, n).inputs - 1
          /\ Cardinality(outs) = injectHandleCounts(edges, n).outputs
          /\ Cardinality(ins) = injectHandleCounts(edges, n).inputs

\* C22: from a contiguous edge set, after any sequence of connectNodes,
\* addNode, addNodeInline and deleteEdge with factories that leave the
\* handles unset, every node's outgoing and incoming handle indices are
\* pairwise distinct and contiguous from 0, and match the handles derived by
\* injectHandleCounts.
C22_HandlesStayContiguous ==
    Contiguous(gEdges) /\ HandlesMatch(gNodes, gEdges)


\* C23: a graph action returns null and leaves the caller's nodes and edges
\* as they were when it cannot apply: deleteEdge and addNodeInline for an
\* edge id not in edges, addNode for a parent id not in nodes, and addNode,
\* addNodeInline and connectNodes when the factory is missing or returns
\* null; the handlers call onChange only for a result that is not null.
C23_NullWhenNotApplicable ==
    [][/\ (gCall'.op \in {"deleteEdge", "addNodeInline"} /\ ~HasEdge(gEdges, gCall'.a))
            => gCall'.isNull
       /\ (gCall'.op = "addNode" /\ ~HasNode(gNodes, gCall'.a)) => gCall'.isNull
       /\ (gCall'.op \in {"addNode", "addNodeInline", "connectNodes"}
             /\ gCall'.factory \in {"missing", "null"}) => gCall'.isNull
       /\ gCall'.isNull => (gNodes' = gNodes /\ gEdges' = gEdges)
       /\ gCall'.fired => ~gCall'.isNull]_vars

\* after an addNode that reached onChange, a connectNodes whose factory
\* returned null
C23_NullAfterChange ==
    /\ gCall.n = 2 /\ gCall.onChange /\ Len(gNodes) = 4
    /\ gCall.op = "connectNodes" /\ gCall.factory = "null"
    /\ gCall.isNull /\ ~gCall.fired

----------------------------------------------------------------------------
(* deleteEdge on its own: one call on three edges whose handles may be
   unset, repeated or gapped.                                              *)

DeleteEdges ==
    { GEdge(MissingId, s, t, sh, th) :
        s \in {1, 2}, t \in {3, 4}, sh \in {NoHandle, 1, 2}, th \in {0, 2} }

\* edges carry distinct ids
Numbered(edges) == [k \in SeqIdx(edges) |-> [edges[k] EXCEPT !.id = k]]

DeleteInit ==
    /\ gNodes = << 1, 2, 3, 4 >>
    /\ gEdges \in { Numbered(<< a, b, c >>) :
                      a \in DeleteEdges, b \in DeleteEdges, c \in DeleteEdges }
    /\ gCall = [NoCall(TRUE) EXCEPT !.n = MaxCalls - 1]
    /\ gStart = NoStart
    /\ CoreIdle /\ LayIdle /\ VisIdle /\ PortIdle /\ MhIdle

DeleteSpec == DeleteInit /\ [][HandleDeleteEdge]_vars

\* the handles `after` gives the edges at positions `members` are
\* 0 .. k-1, each once, in the order of the indices they had in `before`
Renumbered(members, before, after) ==
    /\ { after[k] : k \in members } = 0 .. Cardinality(members) - 1
    /\ \A i \in members, j \in members :
          HandleIdx(before[i]) < HandleIdx(before[j]) => after[i] < after[j]

DeleteContract(nodes, edges, edgeId, nodesAfter, edgesAfter) ==
    LET deleted == FindEdge(edges, edgeId)
        kept    == WithoutId(edges, edgeId)
        outs    == { k \in SeqIdx(kept) : kept[k].source = deleted.source }
        ins     == { k \in SeqIdx(kept) : kept[k].target = deleted.target }
    IN /\ nodesAfter = nodes
       /\ Len(edgesAfter) = Len(kept)
       /\ \A k \in SeqIdx(kept) :
             /\ edgesAfter[k].id = kept[k].id
             /\ edgesAfter[k].source = kept[k].source
             /\ edgesAfter[k].target = kept[k].target
             /\ k \notin outs => edgesAfter[k].sourceHandle = kept[k].sourceHandle
             /\ k \notin ins => edgesAfter[k].targetHandle = kept[k].targetHandle
       /\ Renumbered(outs, [k \in SeqIdx(kept) |-> kept[k].sourceHandle],
                     [k \in SeqIdx(kept) |-> edgesAfter[k].sourceHandle])
       /\ Renumbered(ins, [k \in SeqIdx(kept) |-> kept[k].targetHandle],
                     [k \in SeqIdx(kept) |-> edgesAfter[k].targetHandle])

\* C21: after deleteEdge for an existing edge, the remaining outgoing edges of
\* the deleted edge's source carry output-0 .. output-(k-1) with no gap and no
\* duplicate, in the relative order of their previous indices, the remaining
\* incoming edges of its target carry input-0 .. input-(m-1) likewise, and the
\* node list and the handles of all other edges are unchanged.
C21_DeleteReindexes ==
    [][(gCall'.op = "deleteEdge" /\ gCall'.fired)
         => DeleteContract(gNodes, gEdges, gCall'.a, gNodes', gEdges')]_vars

\* a delete left two edges of one source and two of one target; the
\* output-0 and the input-1 they carry are handles no input edge had
C21_GapsClosed ==
    /\ gCall.op = "deleteEdge" /\ gCall.fired
    /\ \E i \in SeqIdx(gEdges), j \in SeqIdx(gEdges) :
          /\ gEdges[i].source = gEdges[j].source
          /\ gEdges[i].target = gEdges[j].target
          /\ gEdges[i].sourceHandle = 0 /\ gEdges[j].sourceHandle = 1
          /\ gEdges[i].targetHandle = 1 /\ gEdges[j].targetHandle = 0


----------------------------------------------------------------------------
(* The React Flow event handlers of OrthogonalFlow (OrthogonalFlow.jsx
   534-634).  React Flow is handed the host's nodes and edges together with
   a phantom node and a phantom edge for every hovered or selected node
   (lines 470-531), and reports changes and connections among what it is
   shown.  The phantom node of node n has the id "__phantom-n", here -n; the
   phantom edge of n has the id "__phantom-edge-n", here -n as well.        *)

PhantomInput == -3      \* the handle id "__phantom-input"

PhantomId(n) == -n                  \* `__phantom-${n.id}`
IsPhantom(id) == id < 0             \* id.startsWith("__phantom")
StripPhantom(id) == -id             \* id.replace("__phantom-", "")

\* what React Flow shows: every node, and the phantom of any node that is
\* hovered or selected
ShownNodes(nodes) == NodeIdsOf(nodes) \cup { PhantomId(n) : n \in NodeIdsOf(nodes) }
ShownEdges(nodes, edges) ==
    EdgeIdsOf(edges) \cup { PhantomId(n) : n \in NodeIdsOf(nodes) }

\* the changes React Flow reports for what it shows: a selection or a removal
Changes(ids) == { [type |-> t, id |-> i] : t \in {"select", "remove"}, i \in ids }

\* one change, or the change of a phantom together with another change
ChangeLists(ids) ==
    { << c >> : c \in Changes(ids) }
    \cup { << c, d >> : c \in Changes({ i \in ids : IsPhantom(i) }), d \in Changes(ids) }

RECURSIVE RealChanges(_)
\* changes.filter((c) => !c.id?.startsWith("__phantom"))
RealChanges(changes) ==
    IF changes = << >> THEN << >>
    ELSE IF IsPhantom(changes[1].id) THEN RealChanges(Tail(changes))
         ELSE << changes[1] >> \o RealChanges(Tail(changes))

Removed(changes) ==
    { changes[k].id : k \in { j \in SeqIdx(changes) : changes[j].type = "remove" } }

RECURSIVE DropNodes(_, _)
DropNodes(nodes, ids) ==
    IF nodes = << >> THEN << >>
    ELSE IF nodes[1] \in ids THEN DropNodes(Tail(nodes), ids)
         ELSE << nodes[1] >> \o DropNodes(Tail(nodes), ids)

\* applyNodeChanges of React Flow: a removed node goes, a selection keeps the ids
applyNodeChanges(changes, nodes) == DropNodes(nodes, Removed(changes))

\* applyEdgeChanges of React Flow
applyEdgeChanges(changes, edges) ==
    KeepEdges(edges, [k \in SeqIdx(edges) |-> edges[k].id \notin Removed(changes)])

\* addEdge of React Flow: the edge is appended unless the same connection exists
addEdge(edge, edges) ==
    IF \E k \in SeqIdx(edges) :
          /\ edges[k].source = edge.source /\ edges[k].target = edge.target
          /\ edges[k].sourceHandle = edge.sourceHandle
          /\ edges[k].targetHandle = edge.targetHandle
    THEN edges
    ELSE Append(edges, edge)

\* onNodesChange, lines 534-539
OnNodesChange ==
    \E changes \in ChangeLists(ShownNodes(gNodes)) :
        LET realChanges == RealChanges(changes)
        IN Fire("onNodesChange", MissingId, MissingId, "none",
                IF Len(realChanges) = 0 THEN NullResult
                ELSE Result(applyNodeChanges(realChanges, gNodes), gEdges))

\* onEdgesChange, lines 541-546
OnEdgesChange ==
    \E changes \in ChangeLists(ShownEdges(gNodes, gEdges)) :
        LET realChanges == RealChanges(changes)
        IN Fire("onEdgesChange", MissingId, MissingId, "none",
                IF Len(realChanges) = 0 THEN NullResult
                ELSE Result(gNodes, applyEdgeChanges(realChanges, gEdges)))

\* onConnectStart, lines 549-551
OnConnectStart ==
    \E nodeId \in ShownNodes(gNodes) :
        /\ gCall.n < MaxCalls
        /\ gStart' = nodeId
        /\ gCall' = [gCall EXCEPT !.op = "onConnectStart", !.a = nodeId,
                       !.b = MissingId, !.factory = "none", !.isNull = TRUE,
                       !.fired = FALSE, !.n = gCall.n + 1]
        /\ UNCHANGED <<gNodes, gEdges, coreVars, layVars, visVars, portVars, mhVars>>

\* what onConnectEnd and onConnect do once source and target are settled:
\* connectNodes through the factory if there is one, addEdge otherwise
Connected(source, target, rawEdge, onConnectNodes) ==
    IF onConnectNodes.kind # "missing"
    THEN connectNodes(gNodes, gEdges, onConnectNodes)
    ELSE Result(gNodes, addEdge(rawEdge, gEdges))

\* the tail of Fire for a handler that also clears connectStartRef
FireAndClear(op, a, b, factory, result) ==
    LET fired == ~result.isNull /\ gCall.onChange
    IN /\ gCall.n < MaxCalls
       /\ gStart' = NoStart
       /\ gCall' = [op |-> op, a |-> a, b |-> b, factory |-> factory,
                    isNull |-> result.isNull, fired |-> fired, n |-> gCall.n + 1,
                    onChange |-> gCall.onChange]
       /\ IF fired
          THEN gNodes' = result.nodes /\ gEdges' = result.edges
          ELSE UNCHANGED <<gNodes, gEdges>>
       /\ UNCHANGED <<coreVars, layVars, visVars, portVars, mhVars>>

\* onConnectEnd, lines 553-596; targetId is the data-id of the node element
\* under the cursor, MissingId when there is none
OnConnectEnd ==
    \E targetId \in ShownNodes(gNodes) \cup {MissingId} :
      LET sourceId == IF IsPhantom(gStart) THEN StripPhantom(gStart) ELSE gStart
      IN \E onConnectNodes \in ConnectOutcomes(gEdges, sourceId, targetId) :
           FireAndClear("onConnectEnd", sourceId, targetId, onConnectNodes.kind,
              IF gStart = NoStart \/ targetId = MissingId \/ IsPhantom(targetId)
                 \/ sourceId = targetId
              THEN NullResult
              ELSE Connected(sourceId, targetId,
                             RawEdge(FreshEdge(gEdges), sourceId, targetId),
                             onConnectNodes))

\* onConnect, lines 599-634; params name two handles React Flow shows
OnConnect ==
    \E paramsSource \in ShownNodes(gNodes), paramsTarget \in ShownNodes(gNodes) :
      LET source == IF IsPhantom(paramsSource) THEN StripPhantom(paramsSource)
                    ELSE paramsSource
          sourceHandle == IF IsPhantom(paramsSource) THEN NoHandle ELSE 0
          targetHandle == IF IsPhantom(paramsTarget) THEN PhantomInput ELSE 0
      IN \E onConnectNodes \in ConnectOutcomes(gEdges, source, paramsTarget) :
           Fire("onConnect", paramsSource, paramsTarget, onConnectNodes.kind,
              IF source = paramsTarget THEN NullResult
              ELSE Connected(source, paramsTarget,
                             GEdge(FreshEdge(gEdges), source, paramsTarget,
                                   sourceHandle, targetHandle),
                             onConnectNodes))

FlowInit ==
    /\ gNodes = << 1, 2, 3 >>
    /\ gEdges \in StartEdgeLists
    /\ gCall \in { NoCall(onChange) : onChange \in BOOLEAN } /\ gStart = NoStart
    /\ CoreIdle /\ LayIdle /\ VisIdle /\ PortIdle /\ MhIdle

FlowNext ==
    \/ OnNodesChange
    \/ OnEdgesChange
    \/ OnConnectStart
    \/ OnConnectEnd
    \/ OnConnect

FlowSpec == FlowInit /\ [][FlowNext]_vars

\* C30: no sequence of React Flow events makes onChange deliver a node whose
\* id starts with "__phantom", an edge whose source or target starts with
\* "__phantom", or an edge whose source equals its target.
C30_NothingPhantomDelivered ==
    gCall.fired =>
       /\ \A k \in SeqIdx(gNodes) : ~IsPhantom(gNodes[k])
       /\ \A k \in SeqIdx(gEdges) :
             /\ ~IsPhantom(gEdges[k].source)
             /\ ~IsPhantom(gEdges[k].target)
             /\ gEdges[k].source # gEdges[k].target


====
